---- MODULE Spec2Model ----
(***************************************************************************)
(* Roshar character creator (script.js): the per-field version history,    *)
(* its navigation, the direct-edit handler and the bio generation that     *)
(* applies AI results to the fields.                                       *)
(*                                                                         *)
(* A string is a sequence of one-character strings, so that trim() is      *)
(* computed and not assumed.  The page runs on one event loop: every       *)
(* action below is one task (a user event, or the continuation of an       *)
(* await), and tasks interleave freely.                                    *)
(***************************************************************************)
EXTENDS Integers, Sequences, FiniteSets, Bags, TLC

(***************************************************************************)
(* Bounds of the exploration.                                              *)
(***************************************************************************)
\* Largest total number of Versions kept over all fields.
MaxVersions == 3

\* Largest number of Versions of the one field FieldSpec works on.
MaxFieldVersions == 4

\* Largest total number of Versions kept over all fields under LiveSpec.
MaxLiveVersions == 2

\* Most invocations of the image operations that are live at a time.
MaxImageOps == 2

\* Longest text of a string value in the texts given to parseAIResponse.
MaxContentLen == 3

(***************************************************************************)
(* Program constants and the finite sets the inputs are drawn from.        *)
(***************************************************************************)
\* Two of the fourteen declared bio fields.
BIO_FIELDS == {"background", "catchphrase"}

\* const maxAttempts = 3
maxAttempts == 3

\* Strings the user types on the whole page (Spec): "", "A".
TypedValues == {<<>>, <<"A">>}

\* Strings the user types when one field is followed (FieldSpec): "", " ", "A".
FieldTypedValues == {<<>>, <<" ">>, <<"A">>}

\* Strings the AI returns for a field: "", "A", "B".
AIValues == {<<>>, <<"A">>, <<"B">>}

\* Every string a field can hold.
Values == FieldTypedValues \cup AIValues

\* One id per invocation of generateBio that can be alive at the same time.
BioIds == {1, 2}

\* The white space of trim() and of \\s that the modelled texts contain.
Whitespace == {" ", "\n", "\t", "\r"}

VARIABLES
    fieldHistory,         \* fieldHistory[f]: sequence of [value, type]
    currentVersionIndex,  \* currentVersionIndex[f]: 0-based index
    elementValue,         \* document.getElementById(f).value
    elementClass,         \* classList of the element, within {"ai-generated", "user-edited"}
    elementDisabled,      \* document.getElementById(f).disabled
    versionControls,      \* per field: display, counter, prevDisabled, nextDisabled
    rafPending,           \* per field: value a pending requestAnimationFrame callback writes
    OPENAI_API_KEY,       \* TRUE iff the global holds a non-empty key
    windowConfig,         \* TRUE iff window.CONFIG.OPENAI_API_KEY is non-empty
    generateBioBtnDisabled,
    bio,                  \* bag of the live invocations of generateBio
    alertMessage,         \* the message alert() showed during the last task, or NoAlert
    generateImageBtnDisabled,
    refineImageBtnDisabled,
    image,                \* bag of the live invocations of generateImage and refineImage
    characterImage,       \* characterImage.src: "none", or whether the invocation that set
                          \* it was then the one started last ("latest") or not ("stale")
    imageInstructions,    \* TRUE iff imageInstructions.value.trim() is non-empty
    referenceImage,       \* TRUE iff referenceImage.files[0] exists
    selectedTiles,        \* the alignment tiles with class 'selected'
    alignmentValue,       \* alignmentInput.value
    downloadBioBtnDisabled,
    download,             \* the invocation of downloadBio: its pc, formData and image
    exported,             \* the last document downloadBio produced
    untouched,            \* history variable: untouched[f] iff a generation was applied to
                          \* f and the user has neither edited nor navigated f since
    call                  \* history variable: the last direct call of StoreSpec

vars == <<fieldHistory, currentVersionIndex, elementValue, elementClass,
          elementDisabled, versionControls, rafPending, OPENAI_API_KEY,
          windowConfig, generateBioBtnDisabled, bio, alertMessage,
          generateImageBtnDisabled, refineImageBtnDisabled, image,
          characterImage, imageInstructions, referenceImage,
          selectedTiles, alignmentValue,
          downloadBioBtnDisabled, download, exported, untouched, call>>

fieldVars == <<fieldHistory, currentVersionIndex, elementValue, elementClass,
               versionControls, rafPending>>

imageVars == <<generateImageBtnDisabled, refineImageBtnDisabled, image,
               characterImage, imageInstructions, referenceImage>>

exportVars == <<downloadBioBtnDisabled, download, exported>>

alignmentVars == <<selectedTiles, alignmentValue>>

\* No alert() was shown.
NoAlert == "none"

\* undefined: comparable with the strings, equal to none of them.
NoValue == <<"undefined">>

(***************************************************************************)
(* String helpers.                                                         *)
(***************************************************************************)
RECURSIVE TrimStart(_)
TrimStart(s) ==
    IF s = <<>> THEN s
    ELSE IF Head(s) \in Whitespace THEN TrimStart(Tail(s)) ELSE s

RECURSIVE TrimEnd(_)
TrimEnd(s) ==
    IF s = <<>> THEN s
    ELSE IF s[Len(s)] \in Whitespace THEN TrimEnd(SubSeq(s, 1, Len(s) - 1)) ELSE s

\* String.prototype.trim
Trim(s) == TrimEnd(TrimStart(s))

\* JavaScript truthiness of a string: the empty string is falsy.
Truthy(s) == s # <<>>

Last(h) == h[Len(h)]

IsPrefix(s, t) == Len(s) <= Len(t) /\ SubSeq(t, 1, Len(s)) = s

Sum(f) ==
    LET RECURSIVE Acc(_)
        Acc(S) == IF S = {} THEN 0
                  ELSE LET x == CHOOSE y \in S : TRUE IN f[x] + Acc(S \ {x})
    IN Acc(DOMAIN f)

(***************************************************************************)
(* Field history store.                                                    *)
(***************************************************************************)
\* Mutant: the type is decided without trim().
OriginalTypeNoTrim(originalValue) ==
    IF Truthy(originalValue) THEN "user" ELSE "blank"

\* type: originalValue.trim() ? 'user' : 'blank'
OriginalType(originalValue) ==
    IF Truthy(Trim(originalValue)) THEN "user" ELSE "blank"

\* Mutant: the snapshot is pushed without comparing it with the last version.
WithOriginalAlways(history, originalValue) ==
    Append(history, [value |-> originalValue, type |-> IF Truthy(Trim(originalValue))
                                                        THEN "user" ELSE "blank"])

\* Mutant: an original value that differs from the last version is not saved.
WithOriginalFirstOnly(history, originalValue) ==
    IF Len(history) = 0
    THEN Append(history, [value |-> originalValue,
                          type |-> IF Truthy(Trim(originalValue)) THEN "user" ELSE "blank"])
    ELSE history

\* First half of saveAIVersionWithOriginal: the snapshot of the original value.
WithOriginal(history, originalValue) ==
    IF Len(history) = 0
    THEN Append(history, [value |-> originalValue, type |-> OriginalType(originalValue)])
    ELSE IF originalValue # Last(history).value
         THEN Append(history, [value |-> originalValue, type |-> OriginalType(originalValue)])
         ELSE history

\* Mutant: the AI version is pushed without comparing it with the last version.
WithAIAlways(history, aiValue) ==
    Append(history, [value |-> aiValue, type |-> "ai"])

\* Mutant: the AI version gets its type from its content, as a snapshot does.
WithAITypedByContent(history, aiValue) ==
    IF aiValue # history[Len(history)].value
    THEN Append(history, [value |-> aiValue,
                          type |-> IF Truthy(Trim(aiValue)) THEN "user" ELSE "blank"])
    ELSE history

\* Mutant: the AI version is never recorded.
WithAIDropped(history, aiValue) == history

\* Second half: the AI version, compared with the (re-read) last version.
WithAI(history, aiValue) ==
    IF aiValue # Last(history).value
    THEN Append(history, [value |-> aiValue, type |-> "ai"])
    ELSE history

\* Mutant: the AI value is compared with the last version read before the
\* snapshot was pushed.
saveAIVersionStaleLast(history, originalValue, aiValue) ==
    LET snapshot == [value |-> originalValue,
                     type |-> IF Truthy(Trim(originalValue)) THEN "user" ELSE "blank"]
        withOriginal ==
            IF Len(history) = 0 \/ originalValue # history[Len(history)].value
            THEN Append(history, snapshot) ELSE history
    IN IF Len(history) > 0 /\ aiValue = history[Len(history)].value
       THEN withOriginal
       ELSE Append(withOriginal, [value |-> aiValue, type |-> "ai"])

\* Mutant: a differing original value overwrites the last version.
saveAIVersionOverwrite(history, originalValue, aiValue) ==
    LET snapshot == [value |-> originalValue,
                     type |-> IF Truthy(Trim(originalValue)) THEN "user" ELSE "blank"]
        withOriginal ==
            IF Len(history) = 0 THEN <<snapshot>>
            ELSE IF originalValue # history[Len(history)].value
                 THEN [history EXCEPT ![Len(history)] = snapshot]
                 ELSE history
    IN IF aiValue # withOriginal[Len(withOriginal)].value
       THEN Append(withOriginal, [value |-> aiValue, type |-> "ai"])
       ELSE withOriginal

\* The history saveAIVersionWithOriginal leaves in fieldHistory[field].
saveAIVersionWithOriginal(history, originalValue, aiValue) ==
    WithAI(WithOriginal(history, originalValue), aiValue)

\* Mutant: the index is set to history.length.
IndexAfterSaveLength(history) == Len(history)

\* currentVersionIndex[field] = history.length - 1
IndexAfterSave(history) == Len(history) - 1

\* Mutant: the controls are shown as soon as there is one version.
updateVersionControlsFromOne(old, history, index) ==
    IF Len(history) > 0
    THEN [display |-> "flex",
          counter |-> <<index + 1, Len(history)>>,
          prevDisabled |-> (index = 0),
          nextDisabled |-> (index = Len(history) - 1)]
    ELSE [old EXCEPT !.display = "none"]

\* Mutant: the counter shows the 0-based index.
updateVersionControlsZeroBased(old, history, index) ==
    IF Len(history) > 1
    THEN [display |-> "flex",
          counter |-> <<index, Len(history)>>,
          prevDisabled |-> (index = 0),
          nextDisabled |-> (index = Len(history) - 1)]
    ELSE [old EXCEPT !.display = "none"]

\* updateVersionControls(field), given the history and index it reads.
updateVersionControls(old, history, index) ==
    IF Len(history) > 1
    THEN [display |-> "flex",
          counter |-> <<index + 1, Len(history)>>,
          prevDisabled |-> (index = 0),
          nextDisabled |-> (index = Len(history) - 1)]
    ELSE [old EXCEPT !.display = "none"]

\* updateFieldVisualState(field, type), on the element's classList.
updateFieldVisualState(classList, type) ==
    IF type = "ai"
    THEN (classList \cup {"ai-generated"}) \ {"user-edited"}
    ELSE (classList \ {"ai-generated"}) \cup {"user-edited"}

\* Mutant: the edit leaves the classes as they are.
onFieldEditKeepsClass(classList) == classList

\* onFieldEdit(field): remove 'ai-generated', add 'user-edited'.
onFieldEdit(classList) == (classList \ {"ai-generated"}) \cup {"user-edited"}

\* Mutant: the synthetic 'input' event is dispatched after the visual state
\* was updated.
classAfterNavigateEventLast(classList, type) ==
    LET updated == IF type = "ai"
                   THEN (classList \cup {"ai-generated"}) \ {"user-edited"}
                   ELSE (classList \ {"ai-generated"}) \cup {"user-edited"}
    IN (updated \ {"ai-generated"}) \cup {"user-edited"}

\* The classList navigateVersion leaves: the dispatched 'input' event runs
\* onFieldEdit, then updateFieldVisualState(field, history[newIndex].type).
classAfterNavigate(classList, type) ==
    updateFieldVisualState(onFieldEdit(classList), type)

(***************************************************************************)
(* Version navigator.                                                      *)
(***************************************************************************)
\* navigateVersion moves only past both of its guards.
NavInRange(history, index, direction) ==
    /\ ~(Len(history) <= 1)
    /\ index + direction >= 0
    /\ index + direction < Len(history)

\* Mutant: out-of-range requests wrap around.
navigateIndexWrap(history, index, direction) ==
    IF Len(history) <= 1 THEN index ELSE (index + direction) % Len(history)

\* Mutant: a request in range jumps to the first or the last version.
navigateIndexToEnd(history, index, direction) ==
    IF Len(history) > 1 /\ index + direction >= 0 /\ index + direction < Len(history)
    THEN IF direction < 0 THEN 0 ELSE Len(history) - 1
    ELSE index

\* The index navigateVersion leaves in currentVersionIndex[field].
navigateIndex(history, index, direction) ==
    IF NavInRange(history, index, direction) THEN index + direction ELSE index

\* navigateVersion(field, direction), the synchronous part of the handler:
\* the new index, the stored value into the element, the synthetic 'input'
\* event (onFieldEdit), the animation-frame request, the visual state and the
\* controls.  direction is -1 or 1, so the index moves iff it was in range.
navigateVersion(field, direction) ==
    LET history  == fieldHistory[field]
        index    == currentVersionIndex[field]
        newIndex == navigateIndex(history, index, direction)
    IN IF newIndex # index
       THEN LET version == history[newIndex + 1]
            IN /\ currentVersionIndex' = [currentVersionIndex EXCEPT ![field] = newIndex]
               /\ elementValue' = [elementValue EXCEPT ![field] = version.value]
               /\ rafPending' = [rafPending EXCEPT ![field] = version.value]
               /\ elementClass' = [elementClass EXCEPT
                                      ![field] = classAfterNavigate(@, version.type)]
               /\ versionControls' = [versionControls EXCEPT
                                        ![field] = updateVersionControls(@, history, newIndex)]
               /\ UNCHANGED fieldHistory
       ELSE UNCHANGED fieldVars

(***************************************************************************)
(* Applying a parsed AI result.                                            *)
(***************************************************************************)
\* A parsed result: each declared field is absent (NoValue) or a string.
BioDataSet == [BIO_FIELDS -> AIValues \cup {NoValue}]

\* if (bioData[field]): the key is present and its value is truthy.
Applies(bioData, field) == bioData[field] # NoValue /\ Truthy(bioData[field])

\* Mutant: the original value is read after the AI value was written.
HistoryAfterUpdateLate(bioData) ==
    [f \in BIO_FIELDS |->
        IF bioData[f] # NoValue /\ Truthy(bioData[f])
        THEN saveAIVersionWithOriginal(fieldHistory[f], bioData[f], bioData[f])
        ELSE fieldHistory[f]]

\* fieldHistory after updateBioFields(bioData).
HistoryAfterUpdate(bioData) ==
    [f \in BIO_FIELDS |->
        IF Applies(bioData, f)
        THEN saveAIVersionWithOriginal(fieldHistory[f], elementValue[f], bioData[f])
        ELSE fieldHistory[f]]

\* updateBioFields(bioData): for each declared field with a truthy value,
\* capture element.value, save the versions, show the AI value, mark it.
updateBioFields(bioData) ==
    LET newHistory == HistoryAfterUpdate(bioData)
    IN /\ fieldHistory' = newHistory
       /\ currentVersionIndex' =
            [f \in BIO_FIELDS |->
                IF Applies(bioData, f) THEN IndexAfterSave(newHistory[f])
                ELSE currentVersionIndex[f]]
       /\ versionControls' =
            [f \in BIO_FIELDS |->
                IF Applies(bioData, f)
                THEN updateVersionControls(versionControls[f], newHistory[f],
                                           IndexAfterSave(newHistory[f]))
                ELSE versionControls[f]]
       /\ elementValue' =
            [f \in BIO_FIELDS |->
                IF Applies(bioData, f) THEN bioData[f] ELSE elementValue[f]]
       /\ elementClass' =
            [f \in BIO_FIELDS |->
                IF Applies(bioData, f) THEN updateFieldVisualState(elementClass[f], "ai")
                ELSE elementClass[f]]
       /\ untouched' = [f \in BIO_FIELDS |-> Applies(bioData, f) \/ untouched[f]]
       /\ UNCHANGED rafPending

(***************************************************************************)
(* generateBio, one action per task of an invocation.  Invocations have no *)
(* identity the program can see, so the live ones are kept as a bag of     *)
(* their local states [pc, attemptCount].                                  *)
(***************************************************************************)
Invocation(pc, attemptCount) == [pc |-> pc, attemptCount |-> attemptCount]

Replace(bag, old, new) == (bag (-) SetToBag({old})) (+) SetToBag({new})

Remove(bag, old) == bag (-) SetToBag({old})

\* From collectFormData to the first fetch: disable the button, lock the fields.
BioStart(others) ==
    /\ generateBioBtnDisabled' = TRUE
    /\ elementDisabled' = [f \in BIO_FIELDS |-> TRUE]
    /\ bio' = others (+) SetToBag({Invocation("fetch", 1)})

\* Mutant: finally re-enables the button and leaves the fields locked.
BioFinallyKeepsLock(inv) ==
    /\ generateBioBtnDisabled' = FALSE
    /\ elementDisabled' = elementDisabled
    /\ bio' = (bio (-) SetToBag({inv}))

\* finally: re-enable the button, unlock the fields; the invocation ends.
BioFinally(inv) ==
    /\ generateBioBtnDisabled' = FALSE
    /\ elementDisabled' = [f \in BIO_FIELDS |-> FALSE]
    /\ bio' = Remove(bio, inv)

\* generateBio from the click up to its first pending await.
GenerateBioTask ==
    /\ ~generateBioBtnDisabled
    /\ BagCardinality(bio) < Cardinality(BioIds)
    /\ IF OPENAI_API_KEY \/ windowConfig
       THEN /\ OPENAI_API_KEY' = TRUE
            /\ BioStart(bio)
       ELSE /\ bio' = bio (+) SetToBag({Invocation("apiKey", 0)})
            /\ UNCHANGED <<OPENAI_API_KEY, generateBioBtnDisabled, elementDisabled>>
    /\ alertMessage' = NoAlert
    /\ UNCHANGED <<fieldVars, windowConfig, untouched, imageVars, exportVars, alignmentVars>>

\* Click on Generate Bio.
GenerateBioClick == GenerateBioTask /\ UNCHANGED call

\* initializeAPIKey's lookup settles: with a key (TRUE), or with none or by
\* failing (FALSE); generateBio then tests the global again and, without a
\* key, alerts and returns.
ApiKeyTask(inv, key) ==
    /\ BagIn(inv, bio)
    /\ inv.pc = "apiKey"
    /\ OPENAI_API_KEY' = key
    /\ IF key
       THEN /\ BioStart(Remove(bio, inv))
            /\ alertMessage' = NoAlert
       ELSE /\ bio' = Remove(bio, inv)
            /\ alertMessage' = "API key not configured"
            /\ UNCHANGED <<generateBioBtnDisabled, elementDisabled>>
    /\ UNCHANGED <<fieldVars, windowConfig, untouched, imageVars, exportVars, alignmentVars>>

ApiKeyResolved(inv, key) == ApiKeyTask(inv, key) /\ UNCHANGED call

\* const pdfFileIds = ['file-3VQDhPG6m61qHiGuwfFZ2x']
pdfFileIds == <<"file-3VQDhPG6m61qHiGuwfFZ2x">>

\* The file ids passed to createEnhancedBioInput for the input of attempt
\* attemptCount; it adds one input_file item to the content per id.
currentInputFiles(attemptCount) ==
    IF attemptCount = 2 /\ Len(pdfFileIds) > 1
    THEN <<pdfFileIds[1]>>
    ELSE IF attemptCount = 3 THEN <<>> ELSE pdfFileIds

\* Mutant: no attempt is the last one.
LastAttemptNever(attemptCount) == FALSE

\* if (attemptCount === maxAttempts) throw ...
LastAttempt(attemptCount) == attemptCount = maxAttempts

\* Mutant: a failure after a successful response starts the requests again.
BioFailsRetries(inv, failure) ==
    /\ BagIn(inv, bio)
    /\ inv.pc = "json"
    /\ alertMessage' = "none"
    /\ bio' = (bio (-) SetToBag({inv})) (+) SetToBag({[pc |-> "fetch", attemptCount |-> 1]})
    /\ UNCHANGED <<generateBioBtnDisabled, elementDisabled>>
    /\ UNCHANGED <<fieldVars, OPENAI_API_KEY, windowConfig, untouched, call, imageVars, exportVars, alignmentVars>>

\* The fetch of attempt attemptCount settles: response.ok, a non-success
\* status, or a transport error.  attemptCount is not read after the break.
FetchResolved(inv, outcome) ==
    /\ BagIn(inv, bio)
    /\ inv.pc = "fetch"
    /\ IF outcome = "ok"
       THEN /\ bio' = Replace(bio, inv, Invocation("json", 0))
            /\ alertMessage' = NoAlert
            /\ UNCHANGED <<generateBioBtnDisabled, elementDisabled>>
       ELSE IF LastAttempt(inv.attemptCount)
            THEN /\ alertMessage' = "Error generating bio"
                 /\ BioFinally(inv)
            ELSE /\ bio' = Replace(bio, inv, Invocation("wait", inv.attemptCount))
                 /\ alertMessage' = NoAlert
                 /\ UNCHANGED <<generateBioBtnDisabled, elementDisabled>>
    /\ UNCHANGED <<fieldVars, OPENAI_API_KEY, windowConfig, untouched, call, imageVars, exportVars, alignmentVars>>

\* The one-second timer before the next attempt fires.
RetryTimer(inv) ==
    /\ BagIn(inv, bio)
    /\ inv.pc = "wait"
    /\ inv.attemptCount < maxAttempts
    /\ bio' = Replace(bio, inv, Invocation("fetch", inv.attemptCount + 1))
    /\ alertMessage' = NoAlert
    /\ UNCHANGED <<fieldVars, OPENAI_API_KEY, windowConfig, generateBioBtnDisabled,
                   elementDisabled, untouched, call, imageVars, exportVars, alignmentVars>>

\* The ways the task after a successful response fails: response.json()
\* rejects, the data has no message content, no strategy parses the text, or
\* the text parses to null and updateBioFields throws on its first field.
BioFailures == {"json", "nocontent", "unparseable", "null"}

\* The alert of each failure: the inner catch for the content and the parse,
\* the outer catch for the rest.
FailureAlert(failure) ==
    IF failure \in {"nocontent", "unparseable"}
    THEN "Error parsing AI response"
    ELSE "Error generating bio"

\* response.json() settles and the content does not yield a record.
BioFails(inv, failure) ==
    /\ BagIn(inv, bio)
    /\ inv.pc = "json"
    /\ alertMessage' = FailureAlert(failure)
    /\ BioFinally(inv)
    /\ UNCHANGED <<fieldVars, OPENAI_API_KEY, windowConfig, untouched, call, imageVars, exportVars, alignmentVars>>

\* response.json() settles, the content parses to bioData, and it is applied;
\* explored while the fields keep at most max Versions in total.
BioApplyWithin(inv, bioData, max) ==
    /\ BagIn(inv, bio)
    /\ inv.pc = "json"
    /\ Sum([f \in BIO_FIELDS |-> Len(HistoryAfterUpdate(bioData)[f])]) <= max
    /\ updateBioFields(bioData)
    /\ alertMessage' = NoAlert
    /\ BioFinally(inv)
    /\ UNCHANGED <<OPENAI_API_KEY, windowConfig, call, imageVars, exportVars, alignmentVars>>

BioApply(inv, bioData) == BioApplyWithin(inv, bioData, MaxVersions)

(***************************************************************************)
(* User events and the animation frame.                                    *)
(***************************************************************************)
pageVars == <<elementDisabled, OPENAI_API_KEY, windowConfig, generateBioBtnDisabled, bio,
              imageVars, exportVars, alignmentVars>>

\* A task that shows no alert and leaves the page's controls alone.
Quiet == alertMessage' = NoAlert /\ UNCHANGED pageVars

\* Mutant: an edit marks every field as edited.
UserInputMarksAll(f, v) ==
    /\ ~elementDisabled[f]
    /\ v # elementValue[f]
    /\ elementValue' = [elementValue EXCEPT ![f] = v]
    /\ elementClass' = [g \in BIO_FIELDS |-> onFieldEdit(elementClass[g])]
    /\ untouched' = [untouched EXCEPT ![f] = FALSE]
    /\ Quiet
    /\ UNCHANGED <<fieldHistory, currentVersionIndex, versionControls, rafPending, call>>

\* The user types in an enabled field: the 'input' listener runs onFieldEdit.
UserInput(f, v) ==
    /\ ~elementDisabled[f]
    /\ v # elementValue[f]
    /\ elementValue' = [elementValue EXCEPT ![f] = v]
    /\ elementClass' = [elementClass EXCEPT ![f] = onFieldEdit(@)]
    /\ untouched' = [untouched EXCEPT ![f] = FALSE]
    /\ Quiet
    /\ UNCHANGED <<fieldHistory, currentVersionIndex, versionControls, rafPending, call>>

\* The user types in the expanded modal of a field: its 'input' listener
\* copies the textarea into the element and runs onFieldEdit.  The expand
\* button is never disabled and the modal keeps its own text, so this can
\* happen in any state and with any text, also while the field is locked.
ModalInput(f, v) ==
    /\ elementValue' = [elementValue EXCEPT ![f] = v]
    /\ elementClass' = [elementClass EXCEPT ![f] = onFieldEdit(@)]
    /\ untouched' = [untouched EXCEPT ![f] = FALSE]
    /\ Quiet
    /\ UNCHANGED <<fieldHistory, currentVersionIndex, versionControls, rafPending, call>>

\* Click on a visible, enabled previous button.
ClickPrev(f) ==
    /\ versionControls[f].display = "flex"
    /\ ~versionControls[f].prevDisabled
    /\ navigateVersion(f, -1)
    /\ untouched' = [untouched EXCEPT ![f] = FALSE]
    /\ Quiet
    /\ UNCHANGED call

\* Click on a visible, enabled next button.
ClickNext(f) ==
    /\ versionControls[f].display = "flex"
    /\ ~versionControls[f].nextDisabled
    /\ navigateVersion(f, 1)
    /\ untouched' = [untouched EXCEPT ![f] = FALSE]
    /\ Quiet
    /\ UNCHANGED call

\* The next animation frame runs every callback navigateVersion requested:
\* element.value = newValue.
RunAnimationFrame ==
    /\ \E f \in BIO_FIELDS : rafPending[f] # NoValue
    /\ elementValue' = [f \in BIO_FIELDS |->
                          IF rafPending[f] # NoValue THEN rafPending[f] ELSE elementValue[f]]
    /\ rafPending' = [f \in BIO_FIELDS |-> NoValue]
    /\ UNCHANGED <<fieldHistory, currentVersionIndex, elementClass, versionControls>>

AnimationFrame ==
    /\ RunAnimationFrame
    /\ Quiet
    /\ UNCHANGED <<untouched, call>>

NoCall ==
    [op |-> "none", field |-> "none", originalValue |-> <<>>, aiValue |-> <<>>,
     direction |-> 0, before |-> <<>>]

\* A document: a PDF or the printable page, the values of the bio fields it
\* shows and the image in it.
Document(kind, formData, img) == [kind |-> kind, formData |-> formData, image |-> img]

NoDocument == Document("none", [f \in BIO_FIELDS |-> <<>>], "none")

\* The invocation of downloadBio at pc, with its formData and the image it
\* set out to load.
Download(pc, formData, img) == [pc |-> pc, formData |-> formData, image |-> img]

Idle == Download("idle", [f \in BIO_FIELDS |-> <<>>], "none")

(***************************************************************************)
(* The page.                                                               *)
(***************************************************************************)
PageStart ==
    /\ fieldHistory = [f \in BIO_FIELDS |-> <<>>]
    /\ currentVersionIndex = [f \in BIO_FIELDS |-> 0]
    /\ elementValue = [f \in BIO_FIELDS |-> <<>>]
    /\ elementClass = [f \in BIO_FIELDS |-> {}]
    /\ elementDisabled = [f \in BIO_FIELDS |-> FALSE]
    /\ versionControls = [f \in BIO_FIELDS |->
                            [display |-> "none", counter |-> <<1, 1>>,
                             prevDisabled |-> FALSE, nextDisabled |-> FALSE]]
    /\ rafPending = [f \in BIO_FIELDS |-> NoValue]
    /\ OPENAI_API_KEY = FALSE
    /\ windowConfig \in BOOLEAN
    /\ generateBioBtnDisabled = FALSE
    /\ bio = EmptyBag
    /\ alertMessage = NoAlert
    /\ generateImageBtnDisabled = FALSE
    /\ refineImageBtnDisabled = FALSE
    /\ image = EmptyBag
    /\ characterImage = "none"
    /\ imageInstructions = FALSE
    /\ referenceImage = FALSE
    /\ selectedTiles = {}
    /\ alignmentValue = ""
    /\ downloadBioBtnDisabled = FALSE
    /\ download = Idle
    /\ exported = NoDocument
    /\ untouched = [f \in BIO_FIELDS |-> FALSE]

Init ==
    /\ PageStart
    /\ call = NoCall

Next ==
    \/ GenerateBioClick
    \/ \E inv \in BagToSet(bio), key \in BOOLEAN : ApiKeyResolved(inv, key)
    \/ \E inv \in BagToSet(bio), outcome \in {"ok", "notok", "error"} :
          FetchResolved(inv, outcome)
    \/ \E inv \in BagToSet(bio) : RetryTimer(inv)
    \/ \E inv \in BagToSet(bio), failure \in BioFailures :
          BioFails(inv, failure)
    \/ \E inv \in BagToSet(bio), bioData \in BioDataSet : BioApply(inv, bioData)
    \/ \E f \in BIO_FIELDS, v \in TypedValues : UserInput(f, v)
    \/ \E f \in BIO_FIELDS, v \in TypedValues : ModalInput(f, v)
    \/ \E f \in BIO_FIELDS : ClickPrev(f)
    \/ \E f \in BIO_FIELDS : ClickNext(f)
    \/ AnimationFrame

Spec == Init /\ [][Next]_vars

\* The pending fetch of some invocation settles.
NetworkSettles ==
    \E inv \in BagToSet(bio), outcome \in {"ok", "notok", "error"} :
        FetchResolved(inv, outcome)

\* The one-second timer of some invocation fires.
TimerFires == \E inv \in BagToSet(bio) : RetryTimer(inv)

\* The pending response.json() of some invocation settles.
ContentSettles ==
    \/ \E inv \in BagToSet(bio), failure \in BioFailures : BioFails(inv, failure)
    \/ \E inv \in BagToSet(bio), bioData \in BioDataSet :
          BioApplyWithin(inv, bioData, MaxLiveVersions)

LiveNext ==
    \/ GenerateBioClick
    \/ \E inv \in BagToSet(bio), key \in BOOLEAN : ApiKeyResolved(inv, key)
    \/ NetworkSettles
    \/ TimerFires
    \/ ContentSettles
    \/ \E f \in BIO_FIELDS, v \in TypedValues : UserInput(f, v)
    \/ \E f \in BIO_FIELDS, v \in TypedValues : ModalInput(f, v)
    \/ \E f \in BIO_FIELDS : ClickPrev(f)
    \/ \E f \in BIO_FIELDS : ClickNext(f)
    \/ AnimationFrame

\* The page when every network call settles and every timer fires, followed
\* while the fields keep at most MaxLiveVersions Versions.
LiveSpec ==
    /\ Init
    /\ [][LiveNext]_vars
    /\ WF_vars(NetworkSettles)
    /\ WF_vars(TimerFires)
    /\ WF_vars(ContentSettles)

(***************************************************************************)
(* The page when the user works on one field only and the AI returns a     *)
(* value for that field only: the same tasks, followed to longer           *)
(* Histories of that field.                                                *)
(***************************************************************************)
TheField == "catchphrase"

\* A parsed result with a value (or none) for TheField and no other key.
OnlyTheField(a) == [f \in BIO_FIELDS |-> IF f = TheField THEN a ELSE NoValue]

FieldNext ==
    \/ GenerateBioClick
    \/ \E inv \in BagToSet(bio), key \in BOOLEAN : ApiKeyResolved(inv, key)
    \/ \E inv \in BagToSet(bio), outcome \in {"ok", "notok", "error"} :
          FetchResolved(inv, outcome)
    \/ \E inv \in BagToSet(bio) : RetryTimer(inv)
    \/ \E inv \in BagToSet(bio), failure \in BioFailures :
          BioFails(inv, failure)
    \/ \E inv \in BagToSet(bio), a \in AIValues \cup {NoValue} :
          BioApplyWithin(inv, OnlyTheField(a), MaxFieldVersions)
    \/ \E v \in FieldTypedValues : UserInput(TheField, v)
    \/ \E v \in FieldTypedValues : ModalInput(TheField, v)
    \/ ClickPrev(TheField)
    \/ ClickNext(TheField)
    \/ AnimationFrame

FieldSpec == Init /\ [][FieldNext]_vars

(***************************************************************************)
(* One generation at a time on TheField, call recording the formData that  *)
(* collectFormData returned to the invocation (const formData, read once   *)
(* when the invocation passes its key check).                              *)
(***************************************************************************)
Captured(formData) ==
    [op |-> "generateBio", field |-> TheField, originalValue |-> <<>>, aiValue |-> <<>>,
     direction |-> 0, before |-> <<>>, formData |-> formData]

\* The click; collectFormData runs in this task when the key is at hand.
CaptureClick ==
    /\ bio = EmptyBag
    /\ GenerateBioTask
    /\ call' = IF OPENAI_API_KEY \/ windowConfig THEN Captured(elementValue) ELSE call

\* The key lookup settles; collectFormData runs in this task on a key.
CaptureKeyResolved(inv, key) ==
    /\ ApiKeyTask(inv, key)
    /\ call' = IF key THEN Captured(elementValue) ELSE call

CaptureNext ==
    \/ CaptureClick
    \/ \E inv \in BagToSet(bio), key \in BOOLEAN : CaptureKeyResolved(inv, key)
    \/ NetworkSettles
    \/ TimerFires
    \/ \E inv \in BagToSet(bio), failure \in BioFailures : BioFails(inv, failure)
    \/ \E inv \in BagToSet(bio), a \in AIValues :
          BioApplyWithin(inv, OnlyTheField(a), MaxLiveVersions)
    \/ \E v \in TypedValues : UserInput(TheField, v)
    \/ \E v \in TypedValues : ModalInput(TheField, v)
    \/ ClickPrev(TheField)
    \/ ClickNext(TheField)
    \/ AnimationFrame

CaptureSpec == Init /\ [][CaptureNext]_vars

(***************************************************************************)
(* The store and the navigator called directly, with any arguments: what   *)
(* saveAIVersionWithOriginal(field, originalValue, aiValue) and            *)
(* navigateVersion(field, direction) do as functions, also on the inputs   *)
(* the page never passes them.  call records the last call and the state   *)
(* of its field before it.                                                 *)
(***************************************************************************)
FieldState(f) ==
    [history  |-> fieldHistory[f],
     index    |-> currentVersionIndex[f],
     value    |-> elementValue[f],
     class    |-> elementClass[f],
     controls |-> versionControls[f],
     raf      |-> rafPending[f]]

Call(op, field, originalValue, aiValue, direction) ==
    [op |-> op, field |-> field, originalValue |-> originalValue, aiValue |-> aiValue,
     direction |-> direction, before |-> FieldState(field)]

\* saveAIVersionWithOriginal(f, o, a) called directly.
StoreSave(f, o, a) ==
    LET newHistory == saveAIVersionWithOriginal(fieldHistory[f], o, a)
        others     == Sum([g \in BIO_FIELDS \ {f} |-> Len(fieldHistory[g])])
    IN /\ Len(newHistory) + others <= MaxVersions
       /\ fieldHistory' = [fieldHistory EXCEPT ![f] = newHistory]
       /\ currentVersionIndex' = [currentVersionIndex EXCEPT ![f] = IndexAfterSave(newHistory)]
       /\ versionControls' = [versionControls EXCEPT
               ![f] = updateVersionControls(@, newHistory, IndexAfterSave(newHistory))]
       /\ call' = Call("save", f, o, a, 0)
       /\ Quiet
       /\ UNCHANGED <<elementValue, elementClass, rafPending, untouched>>

\* navigateVersion(f, direction) called directly, whatever the buttons show.
StoreNavigate(f, direction) ==
    /\ navigateVersion(f, direction)
    /\ call' = Call("navigate", f, <<>>, <<>>, direction)
    /\ Quiet
    /\ UNCHANGED untouched

\* The animation frame after the calls.
StoreFrame ==
    /\ RunAnimationFrame
    /\ call' = NoCall
    /\ Quiet
    /\ UNCHANGED untouched

\* Keys outside BIO_FIELDS: a name that is no property of fieldHistory, and
\* two names that the object literal inherits from Object.prototype.
UnknownKeys == {"bogus", "toString", "constructor"}

\* fieldHistory[key] for a key outside BIO_FIELDS: undefined, or the
\* inherited function, whose length is its number of parameters and which
\* has neither push nor indexed elements.
inherited(key) ==
    [isUndefined |-> key \notin {"toString", "constructor"},
     length      |-> IF key = "constructor" THEN 1 ELSE 0,
     hasPush     |-> FALSE]

\* saveAIVersionWithOriginal(key, o, a) for a key outside BIO_FIELDS: whether
\* it throws a TypeError, which it does before it assigns anything.
saveThrows(key) ==
    LET history == inherited(key)
    IN IF history.isUndefined THEN TRUE         \* history.length
       ELSE IF history.length = 0
            THEN ~history.hasPush               \* history.push(version1)
            ELSE TRUE                           \* lastVersion.value of no element

\* navigateVersion(key, direction) for a key outside BIO_FIELDS: whether it
\* throws a TypeError; it returns at history.length <= 1.
navigateThrows(key) ==
    LET history == inherited(key)
    IN IF history.isUndefined THEN TRUE         \* history.length
       ELSE IF history.length <= 1 THEN FALSE   \* return
            ELSE FALSE                          \* newIndex is no number: no branch taken

UnknownCall(op, key, threw) ==
    [op |-> op, field |-> key, originalValue |-> <<>>, aiValue |-> <<>>,
     direction |-> 0, before |-> <<>>, threw |-> threw]

\* saveAIVersionWithOriginal called with a key outside BIO_FIELDS.
StoreSaveUnknown(key) ==
    /\ call' = UnknownCall("saveUnknownKey", key, saveThrows(key))
    /\ Quiet
    /\ UNCHANGED <<fieldVars, untouched>>

\* navigateVersion called with a key outside BIO_FIELDS.
StoreNavigateUnknown(key) ==
    /\ call' = UnknownCall("navigateUnknownKey", key, navigateThrows(key))
    /\ Quiet
    /\ UNCHANGED <<fieldVars, untouched>>

StoreNext ==
    \/ \E f \in BIO_FIELDS, o \in Values, a \in Values : StoreSave(f, o, a)
    \/ \E f \in BIO_FIELDS, direction \in {-1, 1} : StoreNavigate(f, direction)
    \/ StoreFrame

StoreSpec == Init /\ [][StoreNext]_vars

\* The direct calls with any key, declared or not.
KeyNext ==
    \/ \E f \in BIO_FIELDS, o \in Values, a \in Values : StoreSave(f, o, a)
    \/ \E f \in BIO_FIELDS, direction \in {-1, 1} : StoreNavigate(f, direction)
    \/ StoreFrame
    \/ \E key \in UnknownKeys : StoreSaveUnknown(key)
    \/ \E key \in UnknownKeys : StoreNavigateUnknown(key)

KeySpec == Init /\ [][KeyNext]_vars

(***************************************************************************)
(* generateImage and refineImage, one action per task of an invocation.    *)
(* An invocation is [op, pc, latest]: latest holds while no later click on  *)
(* an image button has started another one.  The page's markup is not part *)
(* of the source, so each button can be clicked whenever it is not         *)
(* disabled.                                                               *)
(***************************************************************************)
ImageOps == {"generateImage", "refineImage"}

\* Mutant: one latch for the three operations, the Generate Bio button being
\* disabled while an image invocation is live.
OneLatch ==
    /\ generateBioBtnDisabled' = (image' # EmptyBag)
    /\ UNCHANGED <<elementDisabled, bio>>

\* generateImage and refineImage assign nothing of generateBio: neither its
\* button, nor the locks of the fields, nor its invocations.
BioLatchKept == UNCHANGED <<elementDisabled, generateBioBtnDisabled, bio>>

ImageInvocation(op, pc, latest) == [op |-> op, pc |-> pc, latest |-> latest]

\* The live invocations once another one has started.
Superseded(bag) ==
    LET old(inv) == [inv EXCEPT !.latest = FALSE]
        olds     == {old(inv) : inv \in BagToSet(bag)}
    IN [o \in olds |->
          Sum([inv \in {i \in BagToSet(bag) : old(i) = o} |-> CopiesIn(inv, bag)])]

\* Mutant: the test of the key after the lookup never finds it missing.
KeyMissingNever(key) == FALSE

\* if (!OPENAI_API_KEY)
KeyMissing(key) == ~key

ButtonDisabled(op) ==
    IF op = "generateImage" THEN generateImageBtnDisabled ELSE refineImageBtnDisabled

\* generateImage after the key check: disable the button, send the request.
GenerateImageStart(others, latest) ==
    /\ generateImageBtnDisabled' = TRUE
    /\ image' = others (+) SetToBag({ImageInvocation("generateImage", "fetch", latest)})
    /\ alertMessage' = NoAlert
    /\ UNCHANGED refineImageBtnDisabled

\* refineImage after the key check: without instructions and reference file
\* alert and return; else disable the button, then read the reference file if
\* there is one, or send the request.
RefineImageStart(others, latest) ==
    IF ~imageInstructions /\ ~referenceImage
    THEN /\ alertMessage' = "Please provide additional instructions or upload a reference image"
         /\ image' = others
         /\ UNCHANGED <<generateImageBtnDisabled, refineImageBtnDisabled>>
    ELSE /\ refineImageBtnDisabled' = TRUE
         /\ image' = others (+) SetToBag({ImageInvocation("refineImage",
                                    IF referenceImage THEN "read" ELSE "fetch", latest)})
         /\ alertMessage' = NoAlert
         /\ UNCHANGED generateImageBtnDisabled

ImageStart(op, others, latest) ==
    IF op = "generateImage" THEN GenerateImageStart(others, latest)
    ELSE RefineImageStart(others, latest)

\* Click on Generate Image or Refine Image: the function up to its first
\* pending await.
ImageClick(op) ==
    /\ ~ButtonDisabled(op)
    /\ BagCardinality(image) < MaxImageOps
    /\ IF OPENAI_API_KEY \/ windowConfig
       THEN /\ OPENAI_API_KEY' = TRUE
            /\ ImageStart(op, Superseded(image), TRUE)
       ELSE /\ image' = Superseded(image) (+) SetToBag({ImageInvocation(op, "apiKey", TRUE)})
            /\ alertMessage' = NoAlert
            /\ UNCHANGED <<OPENAI_API_KEY, generateImageBtnDisabled, refineImageBtnDisabled>>
    /\ BioLatchKept
    /\ UNCHANGED <<fieldVars, windowConfig, characterImage, imageInstructions,
                   referenceImage, untouched, call, exportVars, alignmentVars>>

\* initializeAPIKey's lookup settles for an image invocation, which tests the
\* global again and, without a key, alerts and returns.
ImageKeyResolved(inv, key) ==
    /\ BagIn(inv, image)
    /\ inv.pc = "apiKey"
    /\ OPENAI_API_KEY' = key
    /\ IF KeyMissing(key)
       THEN /\ image' = Remove(image, inv)
            /\ alertMessage' = "API key not configured"
            /\ UNCHANGED <<generateImageBtnDisabled, refineImageBtnDisabled>>
       ELSE ImageStart(inv.op, Remove(image, inv), inv.latest)
    /\ BioLatchKept
    /\ UNCHANGED <<fieldVars, windowConfig, characterImage, imageInstructions,
                   referenceImage, untouched, call, exportVars, alignmentVars>>

\* finally: re-enable the button of the invocation, which ends.
ImageFinally(inv) ==
    /\ generateImageBtnDisabled' =
          IF inv.op = "generateImage" THEN FALSE ELSE generateImageBtnDisabled
    /\ refineImageBtnDisabled' =
          IF inv.op = "refineImage" THEN FALSE ELSE refineImageBtnDisabled
    /\ image' = Remove(image, inv)

\* Mutant: a failed invocation sends its request again.
ImageFailsRetries(inv) ==
    /\ alertMessage' = NoAlert
    /\ image' = Replace(image, inv, [inv EXCEPT !.pc = "fetch"])
    /\ UNCHANGED <<generateImageBtnDisabled, refineImageBtnDisabled,
                   characterImage, imageInstructions, referenceImage>>

\* catch: alert the error; finally.
ImageFails(inv) ==
    /\ alertMessage' = IF inv.op = "generateImage" THEN "Error generating image"
                       ELSE "Error refining image"
    /\ ImageFinally(inv)
    /\ UNCHANGED <<characterImage, imageInstructions, referenceImage>>

\* fileToBase64 of the reference file settles.
ReferenceRead(inv, ok) ==
    /\ BagIn(inv, image)
    /\ inv.pc = "read"
    /\ IF ok
       THEN /\ image' = Replace(image, inv, ImageInvocation(inv.op, "fetch", inv.latest))
            /\ alertMessage' = NoAlert
            /\ UNCHANGED <<generateImageBtnDisabled, refineImageBtnDisabled,
                           characterImage, imageInstructions, referenceImage>>
       ELSE ImageFails(inv)
    /\ BioLatchKept
    /\ UNCHANGED <<fieldVars, OPENAI_API_KEY, windowConfig, untouched, call, exportVars, alignmentVars>>

\* The request of an image invocation settles: response.ok, a non-success
\* status, or a transport error.
ImageFetchResolved(inv, outcome) ==
    /\ BagIn(inv, image)
    /\ inv.pc = "fetch"
    /\ IF outcome = "ok"
       THEN /\ image' = Replace(image, inv, ImageInvocation(inv.op, "json", inv.latest))
            /\ alertMessage' = NoAlert
            /\ UNCHANGED <<generateImageBtnDisabled, refineImageBtnDisabled,
                           characterImage, imageInstructions, referenceImage>>
       ELSE ImageFails(inv)
    /\ BioLatchKept
    /\ UNCHANGED <<fieldVars, OPENAI_API_KEY, windowConfig, untouched, call, exportVars, alignmentVars>>

\* response.json() settles: with an image_generation_call result, which is
\* displayed (refineImage also clears its inputs), without one, or by failing.
ImageJsonResolved(inv, data) ==
    /\ BagIn(inv, image)
    /\ inv.pc = "json"
    /\ IF data = "image"
       THEN /\ characterImage' = IF inv.latest THEN "latest" ELSE "stale"
            /\ imageInstructions' = (inv.op = "generateImage" /\ imageInstructions)
            /\ referenceImage' = (inv.op = "generateImage" /\ referenceImage)
            /\ alertMessage' = NoAlert
            /\ ImageFinally(inv)
       ELSE ImageFails(inv)
    /\ BioLatchKept
    /\ UNCHANGED <<fieldVars, OPENAI_API_KEY, windowConfig, untouched, call, exportVars, alignmentVars>>

\* The user changes the refinement instructions between empty and not.
TypeInstructions ==
    /\ imageInstructions' = ~imageInstructions
    /\ alertMessage' = NoAlert
    /\ UNCHANGED <<fieldVars, elementDisabled, OPENAI_API_KEY, windowConfig,
                   generateBioBtnDisabled, bio, generateImageBtnDisabled,
                   refineImageBtnDisabled, image, characterImage, referenceImage,
                   untouched, call, exportVars, alignmentVars>>

\* The user chooses or removes the reference file.
ChooseReference ==
    /\ referenceImage' = ~referenceImage
    /\ alertMessage' = NoAlert
    /\ UNCHANGED <<fieldVars, elementDisabled, OPENAI_API_KEY, windowConfig,
                   generateBioBtnDisabled, bio, generateImageBtnDisabled,
                   refineImageBtnDisabled, image, characterImage, imageInstructions,
                   untouched, call, exportVars, alignmentVars>>

\* The page with its three operations: the tasks of generateBio, one
\* invocation at a time, with results that hold a value for TheField only and
\* followed while it keeps at most MaxLiveVersions Versions, and the tasks of
\* the image operations.
ImageNext ==
    \/ (bio = EmptyBag /\ GenerateBioClick)
    \/ \E inv \in BagToSet(bio), key \in BOOLEAN : ApiKeyResolved(inv, key)
    \/ NetworkSettles
    \/ TimerFires
    \/ \E inv \in BagToSet(bio), failure \in BioFailures : BioFails(inv, failure)
    \/ \E inv \in BagToSet(bio), a \in AIValues :
          BioApplyWithin(inv, OnlyTheField(a), MaxLiveVersions)
    \/ \E op \in ImageOps : ImageClick(op)
    \/ \E inv \in BagToSet(image), key \in BOOLEAN : ImageKeyResolved(inv, key)
    \/ \E inv \in BagToSet(image), ok \in BOOLEAN : ReferenceRead(inv, ok)
    \/ \E inv \in BagToSet(image), outcome \in {"ok", "notok", "error"} :
          ImageFetchResolved(inv, outcome)
    \/ \E inv \in BagToSet(image), data \in {"image", "noimage", "error"} :
          ImageJsonResolved(inv, data)
    \/ TypeInstructions
    \/ ChooseReference

ImageSpec == Init /\ [][ImageNext]_vars

(***************************************************************************)
(* downloadBio, one action per task of an invocation.  The jsPDF calls     *)
(* either all return or one of them throws; the load of the image ends in  *)
(* onload, whose handler draws the image and adds it to the document and   *)
(* either returns or throws, or in onerror.                                *)
(***************************************************************************)
PdfOutcomes == {"saved", "throws"}

LoadOutcomes == {"added", "error", "threw"}

\* The end of the try block from the character sheet on: doc.save, or the
\* catch block's printable document of createBioDocument in a new window;
\* then the finally block.
DownloadEnds(formData, img, outcome) ==
    /\ exported' = IF outcome = "saved"
                   THEN Document("pdf", formData, img)
                   ELSE Document("print", formData, characterImage)
    /\ downloadBioBtnDisabled' = FALSE
    /\ download' = Idle

exportKept == UNCHANGED <<fieldVars, elementDisabled, OPENAI_API_KEY, windowConfig,
                          generateBioBtnDisabled, bio, alertMessage, imageVars,
                          alignmentVars, untouched, call>>

\* A click on the download button: collectFormData, disable the button, start
\* the document and, with an image on the page, wait for it to load.
DownloadClick(outcome) ==
    /\ ~downloadBioBtnDisabled
    /\ IF outcome = "saved" /\ characterImage # "none"
       THEN /\ download' = Download("image", elementValue, characterImage)
            /\ downloadBioBtnDisabled' = TRUE
            /\ UNCHANGED exported
       ELSE DownloadEnds(elementValue, "none", outcome)
    /\ exportKept

\* The load of the image ends.  An exception of the onload handler is thrown
\* in the handler's task, where nothing settles the promise downloadBio awaits;
\* a load error rejects it, which the inner catch block logs.
ImageLoadSettles(load, outcome) ==
    /\ download.pc = "image"
    /\ IF load = "threw"
       THEN /\ download' = Download("hung", download.formData, download.image)
            /\ UNCHANGED <<downloadBioBtnDisabled, exported>>
       ELSE DownloadEnds(download.formData,
                         IF load = "added" THEN download.image ELSE "none", outcome)
    /\ exportKept

\* The page with the download button: a field the user edits and navigates,
\* generateBio and generateImage one invocation at a time, and downloadBio.
ExportNext ==
    \/ (bio = EmptyBag /\ GenerateBioClick)
    \/ \E inv \in BagToSet(bio), key \in BOOLEAN : ApiKeyResolved(inv, key)
    \/ NetworkSettles
    \/ TimerFires
    \/ \E inv \in BagToSet(bio), failure \in BioFailures : BioFails(inv, failure)
    \/ \E inv \in BagToSet(bio), a \in AIValues :
          BioApplyWithin(inv, OnlyTheField(a), MaxLiveVersions)
    \/ \E v \in TypedValues : UserInput(TheField, v)
    \/ ClickPrev(TheField)
    \/ ClickNext(TheField)
    \/ AnimationFrame
    \/ (image = EmptyBag /\ ImageClick("generateImage"))
    \/ \E inv \in BagToSet(image), key \in BOOLEAN : ImageKeyResolved(inv, key)
    \/ \E inv \in BagToSet(image), outcome \in {"ok", "notok", "error"} :
          ImageFetchResolved(inv, outcome)
    \/ \E inv \in BagToSet(image), data \in {"image", "noimage", "error"} :
          ImageJsonResolved(inv, data)
    \/ \E outcome \in PdfOutcomes : DownloadClick(outcome)
    \/ \E load \in LoadOutcomes, outcome \in PdfOutcomes : ImageLoadSettles(load, outcome)

ExportSpec == Init /\ [][ExportNext]_vars

(***************************************************************************)
(* The alignment grid: its tiles, each with the alignment of its           *)
(* data-alignment attribute, and the click listener of the grid.           *)
(***************************************************************************)
AlignmentTiles == {"tile1", "tile2", "tile3"}

\* tile.dataset.alignment
dataset(tile) ==
    CASE tile = "tile1" -> "Lawful Good"
      [] tile = "tile2" -> "True Neutral"
      [] tile = "tile3" -> "Chaotic Evil"

\* Mutant: the listener selects the tile without clearing the others.
GridSelectionKeepsOthers(tile) ==
    IF tile \notin selectedTiles
    THEN /\ selectedTiles' = selectedTiles \cup {tile}
         /\ alignmentValue' = dataset(tile)
    ELSE /\ selectedTiles' = selectedTiles \ {tile}
         /\ alignmentValue' = ""

\* The listener past its early return: clear every selection, then select
\* the tile if it was not selected, and set the input.
GridSelection(tile) ==
    IF tile \notin selectedTiles
    THEN /\ selectedTiles' = {tile}
         /\ alignmentValue' = dataset(tile)
    ELSE /\ selectedTiles' = {}
         /\ alignmentValue' = ""

\* A click in the grid, on a tile or between the tiles, where the listener
\* returns at once.
GridClick(target) ==
    /\ IF target \in AlignmentTiles
       THEN GridSelection(target)
       ELSE UNCHANGED alignmentVars
    /\ alertMessage' = NoAlert
    /\ UNCHANGED <<fieldVars, elementDisabled, OPENAI_API_KEY, windowConfig,
                   generateBioBtnDisabled, bio, imageVars, exportVars, untouched, call>>

\* The page with the alignment grid: clicks in the grid, a field the user
\* edits and navigates, and generateBio, one invocation at a time.
AlignmentNext ==
    \/ \E target \in AlignmentTiles \cup {"gap"} : GridClick(target)
    \/ (bio = EmptyBag /\ GenerateBioClick)
    \/ \E inv \in BagToSet(bio), key \in BOOLEAN : ApiKeyResolved(inv, key)
    \/ NetworkSettles
    \/ TimerFires
    \/ \E inv \in BagToSet(bio), failure \in BioFailures : BioFails(inv, failure)
    \/ \E inv \in BagToSet(bio), a \in AIValues :
          BioApplyWithin(inv, OnlyTheField(a), MaxLiveVersions)
    \/ \E v \in TypedValues : UserInput(TheField, v)
    \/ ClickPrev(TheField)
    \/ ClickNext(TheField)
    \/ AnimationFrame

AlignmentSpec == Init /\ [][AlignmentNext]_vars

(***************************************************************************)
(* JSON.parse on the texts of the model: objects and strings, with any     *)
(* white space between tokens.  The texts hold no digit, no bracket and    *)
(* not the letters of true, false, null and \u, so no other JSON value can *)
(* be written in them.  A parsed string is [kind "string", chars]; a       *)
(* parsed object is [kind "object", members], members being the set of its *)
(* <<key, value>> pairs, a repeated key keeping its last value.            *)
(***************************************************************************)
Quote == "\""

Backslash == "\\"

\* The characters an escape may follow the backslash with, and what they denote.
Unescaped(c) ==
    CASE c = "n" -> "\n"
      [] c = "t" -> "\t"
      [] c = "r" -> "\r"
      [] OTHER -> c

EscapeChars == {Quote, Backslash, "/", "n", "t", "r"}

\* Characters that may not appear raw inside a JSON string.
ControlChars == {"\n", "\t", "\r"}

JsonString(chars) == [kind |-> "string", chars |-> chars, members |-> {}]

JsonObject(members) == [kind |-> "object", chars |-> <<>>, members |-> members]

Failed == [ok |-> FALSE, value |-> JsonString(<<>>), next |-> 0]

Parsed(value, next) == [ok |-> TRUE, value |-> value, next |-> next]

\* The first index from i on that holds no white space (Len(t) + 1 if none).
RECURSIVE SkipWhitespace(_, _)
SkipWhitespace(t, i) ==
    IF i <= Len(t) /\ t[i] \in Whitespace THEN SkipWhitespace(t, i + 1) ELSE i

\* The rest of a string literal from index j, acc being its characters so far.
RECURSIVE StringBody(_, _, _)
StringBody(t, j, acc) ==
    IF j > Len(t) THEN Failed
    ELSE IF t[j] = Quote THEN Parsed(JsonString(acc), j + 1)
    ELSE IF t[j] = Backslash
         THEN IF j + 1 <= Len(t) /\ t[j + 1] \in EscapeChars
              THEN StringBody(t, j + 2, Append(acc, Unescaped(t[j + 1])))
              ELSE Failed
    ELSE IF t[j] \in ControlChars THEN Failed
    ELSE StringBody(t, j + 1, Append(acc, t[j]))

\* A string literal at index i.
ParseString(t, i) ==
    IF i <= Len(t) /\ t[i] = Quote THEN StringBody(t, i + 1, <<>>) ELSE Failed

WithMember(members, key, value) ==
    {m \in members : m[1] # key} \cup {<<key, value>>}

RECURSIVE ParseValue(_, _)
RECURSIVE ObjectMembers(_, _, _)

\* The members of an object from the key at index i on, up to its brace.
ObjectMembers(t, i, members) ==
    LET key == ParseString(t, i)
    IN IF ~key.ok THEN Failed
       ELSE LET colon == SkipWhitespace(t, key.next)
            IN IF ~(colon <= Len(t) /\ t[colon] = ":") THEN Failed
               ELSE LET value == ParseValue(t, SkipWhitespace(t, colon + 1))
                    IN IF ~value.ok THEN Failed
                       ELSE LET after == SkipWhitespace(t, value.next)
                                now   == WithMember(members, key.value.chars, value.value)
                            IN IF after > Len(t) THEN Failed
                               ELSE IF t[after] = "}"
                                    THEN Parsed(JsonObject(now), after + 1)
                               ELSE IF t[after] = ","
                                    THEN ObjectMembers(t, SkipWhitespace(t, after + 1), now)
                               ELSE Failed

\* A JSON value at index i: a string or an object.
ParseValue(t, i) ==
    IF i > Len(t) THEN Failed
    ELSE IF t[i] = Quote THEN ParseString(t, i)
    ELSE IF t[i] = "{"
         THEN LET first == SkipWhitespace(t, i + 1)
              IN IF first <= Len(t) /\ t[first] = "}"
                 THEN Parsed(JsonObject({}), first + 1)
                 ELSE ObjectMembers(t, first, {})
    ELSE Failed

\* JSON.parse(text): the value, or a SyntaxError.
JSONparse(t) ==
    LET value == ParseValue(t, SkipWhitespace(t, 1))
    IN IF value.ok /\ SkipWhitespace(t, value.next) = Len(t) + 1
       THEN [ok |-> TRUE, value |-> value.value]
       ELSE [ok |-> FALSE, value |-> JsonString(<<>>)]

(***************************************************************************)
(* parseAIResponse: the cleanup, the four strategies and their loop.       *)
(***************************************************************************)
\* t holds p from index i on.
StartsWithAt(t, i, p) ==
    i >= 1 /\ i + Len(p) - 1 <= Len(t) /\ SubSeq(t, i, i + Len(p) - 1) = p

\* text.replace(/pattern/g, replacement) for a literal pattern, from index i.
RECURSIVE ReplaceFrom(_, _, _, _)
ReplaceFrom(t, i, pattern, replacement) ==
    IF i > Len(t) THEN <<>>
    ELSE IF StartsWithAt(t, i, pattern)
         THEN replacement \o ReplaceFrom(t, i + Len(pattern), pattern, replacement)
         ELSE <<t[i]>> \o ReplaceFrom(t, i + 1, pattern, replacement)

ReplaceAll(t, pattern, replacement) == ReplaceFrom(t, 1, pattern, replacement)

\* The grave accent U+0060, which a TLA+ string cannot hold.
Backtick == "grave"

\* The marker of a fenced code block: three grave accents.
Fence == <<Backtick, Backtick, Backtick>>

FenceJson == Fence \o <<"j", "s", "o", "n">>

\* .replace(/^FENCEjson\s*/, ''), FENCE standing for the three grave accents
removeJsonFenceStart(t) ==
    IF StartsWithAt(t, 1, FenceJson)
    THEN TrimStart(SubSeq(t, Len(FenceJson) + 1, Len(t)))
    ELSE t

\* .replace(/^FENCE\s*/, '')
removeFenceStart(t) ==
    IF StartsWithAt(t, 1, Fence)
    THEN TrimStart(SubSeq(t, Len(Fence) + 1, Len(t)))
    ELSE t

\* .replace(/\s*FENCE$/, '')
removeFenceEnd(t) ==
    IF StartsWithAt(t, Len(t) - Len(Fence) + 1, Fence)
    THEN TrimEnd(SubSeq(t, 1, Len(t) - Len(Fence)))
    ELSE t

\* cleanText: trim, then the two pairs of replacements.
cleanText(outputText) ==
    removeFenceEnd(removeFenceStart(removeFenceEnd(removeJsonFenceStart(Trim(outputText)))))

\* Strategy 2: \" becomes the character U+0022; \n and \t are rewritten to
\* themselves.
fixEscapes(t) ==
    ReplaceAll(ReplaceAll(ReplaceAll(t, <<Backslash, Quote>>, <<Quote>>),
                          <<Backslash, "n">>, <<Backslash, "n">>),
               <<Backslash, "t">>, <<Backslash, "t">>)

\* The first index from i on that holds a quote, 0 if there is none.
RECURSIVE NextQuote(_, _)
NextQuote(t, i) ==
    IF i > Len(t) THEN 0
    ELSE IF t[i] = Quote THEN i ELSE NextQuote(t, i + 1)

\* Strategy 3: /"([^"]*\\[^"]*[^"]*?)"/g matches a quote, a run without
\* quotes that holds a backslash, and a quote; the run is rewritten by
\* content.replace(/\\"/g, "'").replace(/"/g, "'").
RECURSIVE FixDialogueFrom(_, _)
FixDialogueFrom(t, i) ==
    IF i > Len(t) THEN <<>>
    ELSE LET close   == IF t[i] = Quote THEN NextQuote(t, i + 1) ELSE 0
             content == SubSeq(t, i + 1, close - 1)
         IN IF close # 0 /\ \E k \in 1..Len(content) : content[k] = Backslash
            THEN <<Quote>>
                 \o ReplaceAll(ReplaceAll(content, <<Backslash, Quote>>, <<"'">>),
                               <<Quote>>, <<"'">>)
                 \o <<Quote>> \o FixDialogueFrom(t, close + 1)
            ELSE <<t[i]>> \o FixDialogueFrom(t, i + 1)

fixDialogue(t) == FixDialogueFrom(t, 1)

CatchphraseKey ==
    <<Quote, "c", "a", "t", "c", "h", "p", "h", "r", "a", "s", "e", Quote, ":">>

RECURSIVE DropTrailingBackslashes(_)
DropTrailingBackslashes(seg) ==
    IF seg # <<>> /\ seg[Len(seg)] = Backslash
    THEN DropTrailingBackslashes(SubSeq(seg, 1, Len(seg) - 1))
    ELSE seg

\* Strategy 4: /"catchphrase":\s*"([^"]*?)\\+"([^"]*?)"/g becomes
\* "catchphrase": "$1'$2".
RECURSIVE FixCatchphraseFrom(_, _)
FixCatchphraseFrom(t, i) ==
    IF i > Len(t) THEN <<>>
    ELSE LET open  == SkipWhitespace(t, i + Len(CatchphraseKey))
             mid   == IF open <= Len(t) /\ t[open] = Quote THEN NextQuote(t, open + 1) ELSE 0
             seg   == SubSeq(t, open + 1, mid - 1)
             close == IF mid # 0 THEN NextQuote(t, mid + 1) ELSE 0
         IN IF /\ StartsWithAt(t, i, CatchphraseKey)
               /\ mid # 0
               /\ seg # <<>> /\ seg[Len(seg)] = Backslash
               /\ close # 0
            THEN CatchphraseKey \o <<" ", Quote>> \o DropTrailingBackslashes(seg)
                 \o <<"'">> \o SubSeq(t, mid + 1, close - 1) \o <<Quote>>
                 \o FixCatchphraseFrom(t, close + 1)
            ELSE <<t[i]>> \o FixCatchphraseFrom(t, i + 1)

fixCatchphrase(t) == FixCatchphraseFrom(t, 1)

\* Mutant: the strategies in the reverse order.
strategiesReversed(text) ==
    <<FixCatchphraseFrom(text, 1), FixDialogueFrom(text, 1),
      ReplaceAll(ReplaceAll(ReplaceAll(text, <<Backslash, Quote>>, <<Quote>>),
                            <<Backslash, "n">>, <<Backslash, "n">>),
                 <<Backslash, "t">>, <<Backslash, "t">>),
      text>>

\* const strategies: the text each strategy hands to JSON.parse, in order.
strategies(text) ==
    <<text, fixEscapes(text), fixDialogue(text), fixCatchphrase(text)>>

\* What a call of parseAIResponse ends with: a returned value and the number
\* of the strategy that parsed it, or a thrown Error with the parts of its
\* message; logged is the text console.error wrote.
Returned(value, strategy) ==
    [returned |-> TRUE, value |-> value, strategy |-> strategy,
     message |-> <<>>, logged |-> NoValue]

Thrown(message, logged) ==
    [returned |-> FALSE, value |-> JsonString(<<>>), strategy |-> 0,
     message |-> message, logged |-> logged]

\* The message of the SyntaxError JSON.parse throws (its wording is the
\* engine's).
SyntaxErrorMessage == "SyntaxError"

\* The loop over the strategies, from strategy i on.
RECURSIVE TryStrategies(_, _)
TryStrategies(text, i) ==
    LET result == JSONparse(strategies(text)[i])
    IN IF result.ok THEN Returned(result.value, i)
       ELSE IF i = Len(strategies(text))
            THEN Thrown(<<"JSON parsing failed after 4 attempts", SyntaxErrorMessage>>, text)
            ELSE TryStrategies(text, i + 1)

\* parseAIResponse(outputText); NoValue stands for a missing or non-string text.
parseAIResponse(outputText) ==
    IF outputText = NoValue \/ ~Truthy(outputText)
    THEN Thrown(<<"Invalid output text">>, NoValue)
    ELSE TryStrategies(cleanText(outputText), 1)

(***************************************************************************)
(* parseAIResponse called directly on texts built from string contents     *)
(* over a, backslash and quote: an object with one member (key k or        *)
(* catchphrase), the same without its closing brace, an object with both   *)
(* members; each bare, padded with white space, or inside a fenced block   *)
(* tagged json, untagged, or tagged js.                                    *)
(***************************************************************************)
SeqsUpTo(S, n) == UNION {[1..k -> S] : k \in 0..n}

ContentChars == {"a", Backslash, Quote}

Contents == SeqsUpTo(ContentChars, MaxContentLen)

ParserKeys == {<<"k">>, <<"c", "a", "t", "c", "h", "p", "h", "r", "a", "s", "e">>}

ObjectText(key, content) ==
    <<"{", Quote>> \o key \o <<Quote, ":", Quote>> \o content \o <<Quote, "}">>

TwoMemberText(first, second) ==
    <<"{", Quote, "k", Quote, ":", Quote>> \o first \o <<Quote, ",">>
    \o CatchphraseKey \o <<Quote>> \o second \o <<Quote, "}">>

\* Text of the first member: empty, a letter, a correctly escaped quote.
FirstContents == {<<>>, <<"a">>, <<Backslash, Quote>>}

Bodies ==
    {ObjectText(key, c) : key \in ParserKeys, c \in Contents}
    \cup {SubSeq(ObjectText(<<"k">>, c), 1, Len(ObjectText(<<"k">>, c)) - 1) :
            c \in Contents}
    \cup {TwoMemberText(c1, c2) : c1 \in FirstContents, c2 \in Contents}

Wrappings == {"bare", "padded", "json", "untagged", "js"}

Wrapped(wrapping, body) ==
    CASE wrapping = "bare"     -> body
      [] wrapping = "padded"   -> <<" ", "\n">> \o body \o <<"\n">>
      [] wrapping = "json"     -> FenceJson \o <<"\n">> \o body \o <<"\n">> \o Fence
      [] wrapping = "untagged" -> Fence \o <<"\n">> \o body \o <<"\n">> \o Fence
      [] wrapping = "js"       -> Fence \o <<"j", "s", "\n">> \o body \o <<"\n">> \o Fence

\* A pending call; wrapping and body record how its text was built.
ParseCall(wrapping, body) ==
    [op |-> "parseAIResponse", outputText |-> Wrapped(wrapping, body),
     wrapping |-> wrapping, body |-> body, outcome |-> Thrown(<<>>, NoValue)]

ParserCalls ==
    {ParseCall(w, b) : w \in Wrappings, b \in Bodies}
    \cup {ParseCall("bare", <<>>), ParseCall("bare", NoValue)}

ParserInit ==
    /\ PageStart
    /\ call \in ParserCalls

\* One call of parseAIResponse: it returns a value or throws.
ParseStep ==
    /\ call.op = "parseAIResponse"
    /\ LET outcome == parseAIResponse(call.outputText)
       IN  call' = [call EXCEPT !.op = "parsed", !.outcome = outcome]
    /\ UNCHANGED <<fieldVars, pageVars, alertMessage, untouched>>

ParserNext == ParseStep

ParserSpec == ParserInit /\ [][ParserNext]_vars

(***************************************************************************)
(* Properties.                                                             *)
(***************************************************************************)
Abs(n) == IF n < 0 THEN -n ELSE n

\* A value is blank iff every character of it is whitespace.
IsBlank(v) == \A i \in 1..Len(v) : v[i] \in Whitespace

\* The Version the store is specified to keep for an original value.
OriginalVersion(o) == [value |-> o, type |-> IF IsBlank(o) THEN "blank" ELSE "user"]

AiVersion(a) == [value |-> a, type |-> "ai"]

\* This step is the apply task of some invocation with some parsed result.
ApplyStep == \E inv \in BagToSet(bio), bioData \in BioDataSet : BioApply(inv, bioData)

\* This step is a click on the previous or the next button of f.
NavigateStep(f) == ClickPrev(f) \/ ClickNext(f)

\* C1: in every reachable state, no two adjacent Versions of a field's
\* History have the same value (provenance is not compared).
C1_NoAdjacentDuplicates ==
    \A f \in BIO_FIELDS : \A i \in 1..(Len(fieldHistory[f]) - 1) :
        fieldHistory[f][i].value # fieldHistory[f][i + 1].value

\* A generation whose AI value equalled the captured original left one Version.
C1_Witness ==
    \E f \in BIO_FIELDS :
        /\ Len(fieldHistory[f]) = 1
        /\ "ai-generated" \in elementClass[f]
        /\ fieldHistory[f][1].value = elementValue[f]

\* C2: in every reachable state, a field with a non-empty History has
\* 0 <= Cursor < len(History).
C2_CursorInRange ==
    \A f \in BIO_FIELDS :
        Len(fieldHistory[f]) > 0 =>
            /\ 0 <= currentVersionIndex[f]
            /\ currentVersionIndex[f] < Len(fieldHistory[f])

\* After generations and a navigation back, the Cursor is inside a History of three.
C2_Witness ==
    \E f \in BIO_FIELDS :
        Len(fieldHistory[f]) = 3 /\ currentVersionIndex[f] = 1

SpecifiedHistory(h, o, a) ==
    LET h1 == IF h = <<>> THEN <<OriginalVersion(o)>>
              ELSE IF o # h[Len(h)].value THEN h \o <<OriginalVersion(o)>>
              ELSE h
    IN IF a # h1[Len(h1)].value THEN h1 \o <<AiVersion(a)>> ELSE h1

\* C4: for every prior History h, original value o and AI value a,
\* recordGeneration leaves exactly the History of the four steps, and the
\* Cursor at its last index.
C4_RecordGeneration ==
    call.op = "save" =>
        /\ fieldHistory[call.field] =
              SpecifiedHistory(call.before.history, call.originalValue, call.aiValue)
        /\ currentVersionIndex[call.field] = Len(fieldHistory[call.field]) - 1

\* A call that appended both the snapshot of an edit and the AI version.
C4_Witness ==
    /\ call.op = "save"
    /\ Len(call.before.history) = 1
    /\ Len(fieldHistory[call.field]) = 3

\* C5 as stated: the Cursor of a field changes only in a step that appends a
\* Version to the field (and then is the new last index) or in a navigation
\* step of the field (and then moves by one).
C5_CursorChangesAsStated ==
    [][\A f \in BIO_FIELDS :
          currentVersionIndex'[f] # currentVersionIndex[f] =>
              \/ /\ Len(fieldHistory'[f]) > Len(fieldHistory[f])
                 /\ currentVersionIndex'[f] = Len(fieldHistory'[f]) - 1
              \/ /\ NavigateStep(f)
                 /\ Abs(currentVersionIndex'[f] - currentVersionIndex[f]) = 1]_vars

\* C5 amended: the Cursor of a field changes only in the apply step of a
\* generation (and then is the last index, whether or not a Version was
\* appended) or in a navigation step of the field (and then moves by one).
C5_CursorChanges ==
    [][\A f \in BIO_FIELDS :
          currentVersionIndex'[f] # currentVersionIndex[f] =>
              \/ /\ ApplyStep
                 /\ currentVersionIndex'[f] = Len(fieldHistory'[f]) - 1
              \/ /\ NavigateStep(f)
                 /\ fieldHistory'[f] = fieldHistory[f]
                 /\ Abs(currentVersionIndex'[f] - currentVersionIndex[f]) = 1]_vars

\* The Cursor was moved back and the field was edited to the last Version's
\* value: a generation returning that value appends nothing.
C5_Witness ==
    \E f \in BIO_FIELDS :
        /\ Len(fieldHistory[f]) >= 2
        /\ currentVersionIndex[f] < Len(fieldHistory[f]) - 1
        /\ elementValue[f] = Last(fieldHistory[f]).value
        /\ \E inv \in BagToSet(bio) : inv.pc = "json"

\* C6: on an empty History, recordGeneration(f, o, a) with o # a leaves
\* [o as Blank if o is blank, else UserEdited; a as AiGenerated], Cursor 1.
C6_FirstTouch ==
    (call.op = "save" /\ call.before.history = <<>> /\ call.originalValue # call.aiValue) =>
        /\ fieldHistory[call.field] =
              <<OriginalVersion(call.originalValue), AiVersion(call.aiValue)>>
        /\ currentVersionIndex[call.field] = 1

\* A first touch of a field holding only whitespace.
C6_Witness ==
    /\ call.op = "save"
    /\ call.before.history = <<>>
    /\ call.originalValue = <<" ">>
    /\ call.aiValue = <<"A">>

\* C7: recordGeneration(f, v, v) appends at most one Version, and none when
\* the last Version already has value v.
C7_DuplicateSuppression ==
    (call.op = "save" /\ call.originalValue = call.aiValue) =>
        /\ Len(fieldHistory[call.field]) <= Len(call.before.history) + 1
        /\ IsPrefix(call.before.history, fieldHistory[call.field])
        /\ (call.before.history # <<>>
              /\ Last(call.before.history).value = call.aiValue)
           => fieldHistory[call.field] = call.before.history

\* recordGeneration(f, v, v) repeated on a History that ends with v.
C7_Witness ==
    /\ call.op = "save"
    /\ call.originalValue = call.aiValue
    /\ call.before.history # <<>>
    /\ Last(call.before.history).value = call.aiValue
    /\ Len(call.before.history) = 1

\* C8: a generation applied to a field that had a generation applied and
\* was neither edited nor navigated since appends no snapshot of the
\* original value, and appends the AI value iff it differs from the last
\* Version's value: whatever it appends is one AiGenerated Version, the
\* value then displayed, which differs from the last Version's value.
C8_SecondGeneration ==
    [][\A f \in BIO_FIELDS :
          (untouched[f] /\ fieldHistory'[f] # fieldHistory[f]) =>
              /\ fieldHistory'[f] = Append(fieldHistory[f], AiVersion(elementValue'[f]))
              /\ elementValue'[f] # Last(fieldHistory[f]).value]_vars

\* C9: once a History is non-empty its first Version never changes; it is
\* Blank or UserEdited, and its value is the value the field displayed just
\* before the first generation applied to the field.
C9_FirstVersion ==
    [][\A f \in BIO_FIELDS :
          /\ Len(fieldHistory[f]) > 0 =>
                /\ Len(fieldHistory'[f]) > 0
                /\ fieldHistory'[f][1] = fieldHistory[f][1]
          /\ (Len(fieldHistory[f]) = 0 /\ Len(fieldHistory'[f]) > 0) =>
                /\ fieldHistory'[f][1].value = elementValue[f]
                /\ fieldHistory'[f][1].type \in {"blank", "user"}]_vars

\* A first Version captured from what the user had typed, kept under later Versions.
C9_Witness ==
    \E f \in BIO_FIELDS :
        /\ Len(fieldHistory[f]) = 3
        /\ fieldHistory[f][1] = [value |-> <<"A">>, type |-> "user"]

\* The request of the last call was out of range for the state before it.
OutOfRangeCall ==
    \/ Len(call.before.history) <= 1
    \/ call.direction = -1 /\ call.before.index = 0
    \/ call.direction = 1 /\ call.before.index = Len(call.before.history) - 1

\* C10: navigate-previous at Cursor 0, navigate-next at the last index, and
\* any navigation on a field with 0 or 1 Versions change nothing: Cursor,
\* History, displayed value, visual state and controls stay as they were.
C10_NavigationBounds ==
    (call.op = "navigate" /\ OutOfRangeCall) =>
        FieldState(call.field) = call.before

\* navigate-previous was requested at Cursor 0 of a History of three.
C10_Witness ==
    /\ call.op = "navigate"
    /\ call.direction = -1
    /\ call.before.index = 0
    /\ Len(call.before.history) = 3

\* C11: a navigation in range moves the Cursor by exactly one; when the
\* handler returns the field displays History[newCursor].value and is
\* highlighted iff that Version is AiGenerated, although the handler
\* dispatched an 'input' event that ran the direct-edit handler.
C11_NavigationInRange ==
    [][\A f \in BIO_FIELDS :
          NavigateStep(f) =>
              LET version == fieldHistory[f][currentVersionIndex'[f] + 1]
              IN /\ Abs(currentVersionIndex'[f] - currentVersionIndex[f]) = 1
                 /\ elementValue'[f] = version.value
                 /\ ("ai-generated" \in elementClass'[f]) <=> (version.type = "ai")
                 /\ ("user-edited" \in elementClass'[f]) <=> (version.type # "ai")]_vars

\* The field was navigated back from its last Version onto an AiGenerated
\* Version and the animation frame has not run yet.
C11_Witness ==
    \E f \in BIO_FIELDS :
        /\ Len(fieldHistory[f]) = 3
        /\ currentVersionIndex[f] = 1
        /\ fieldHistory[f][2].type = "ai"
        /\ rafPending[f] = fieldHistory[f][2].value
        /\ elementValue[f] = fieldHistory[f][2].value
        /\ "ai-generated" \in elementClass[f]

\* C12: the navigation controls of a field are visible iff it has more than
\* one Version; while visible, previous is disabled iff Cursor = 0 and next
\* is disabled iff Cursor = len(History) - 1.
C12_ControlsMatchHistory ==
    \A f \in BIO_FIELDS :
        /\ (versionControls[f].display = "flex") <=> (Len(fieldHistory[f]) > 1)
        /\ versionControls[f].display \in {"flex", "none"}
        /\ versionControls[f].display = "flex" =>
              /\ versionControls[f].prevDisabled <=> (currentVersionIndex[f] = 0)
              /\ versionControls[f].nextDisabled <=>
                    (currentVersionIndex[f] = Len(fieldHistory[f]) - 1)

\* One field kept a single Version after a generation and shows no controls,
\* while another was navigated to its first Version.
C12_Witness ==
    \E f, g \in BIO_FIELDS :
        /\ Len(fieldHistory[f]) = 1
        /\ versionControls[f].display = "none"
        /\ Len(fieldHistory[g]) = 2
        /\ currentVersionIndex[g] = 0
        /\ versionControls[g].prevDisabled
        /\ ~versionControls[g].nextDisabled

\* C13: whenever a field has more than one Version, its counter shows
\* (Cursor + 1, len(History)).
C13_CounterIsCurrent ==
    \A f \in BIO_FIELDS :
        Len(fieldHistory[f]) > 1 =>
            versionControls[f].counter =
                <<currentVersionIndex[f] + 1, Len(fieldHistory[f])>>

\* After a navigation back in a History of three the counter shows 2/3.
C13_Witness ==
    \E f \in BIO_FIELDS :
        /\ Len(fieldHistory[f]) = 3
        /\ currentVersionIndex[f] = 1
        /\ versionControls[f].counter = <<2, 3>>

\* This step is a direct edit of f, typed in the field or in its modal.
EditStep(f) ==
    \E v \in FieldTypedValues : UserInput(f, v) \/ ModalInput(f, v)

\* C14: a direct edit of a field, in the field or in its modal, leaves the
\* field neutral, changes neither its History nor its Cursor nor its
\* controls, and changes nothing of any other field.
C14_DirectEdit ==
    [][\A f \in BIO_FIELDS :
          EditStep(f) =>
              /\ "ai-generated" \notin elementClass'[f]
              /\ "user-edited" \in elementClass'[f]
              /\ fieldHistory'[f] = fieldHistory[f]
              /\ currentVersionIndex'[f] = currentVersionIndex[f]
              /\ versionControls'[f] = versionControls[f]
              /\ \A g \in BIO_FIELDS \ {f} : FieldState(g)' = FieldState(g)]_vars

\* A field showing its AiGenerated last Version was edited: it is neutral
\* and displays a value its History does not hold at the Cursor.
C14_Witness ==
    \E f \in BIO_FIELDS :
        /\ Len(fieldHistory[f]) = 2
        /\ currentVersionIndex[f] = 1
        /\ fieldHistory[f][2].type = "ai"
        /\ elementValue[f] # fieldHistory[f][2].value
        /\ rafPending[f] = NoValue
        /\ "ai-generated" \notin elementClass[f]

\* This step ends a generation in failure: the third request failed, or the
\* task after a successful response threw.
FailureStep ==
    \/ \E inv \in BagToSet(bio), failure \in BioFailures : BioFails(inv, failure)
    \/ \E inv \in BagToSet(bio), outcome \in {"notok", "error"} :
          inv.attemptCount = maxAttempts /\ FetchResolved(inv, outcome)

\* This step ends an invocation of generateBio.
GenerationEnds == BagCardinality(bio') < BagCardinality(bio)

\* C15: a generation that fails (requests exhausted, no message content,
\* unparseable or unusable content) changes no field's History, Cursor,
\* displayed value or visual state; a History changes only in the apply step
\* of a generation that alerts nothing, and a field the last task of a
\* generation touches ends with its displayed value recorded as the last
\* Version, under the Cursor.
C15_FailureChangesNothing ==
    [][/\ FailureStep =>
             /\ alertMessage' # NoAlert
             /\ UNCHANGED <<fieldHistory, currentVersionIndex, elementValue, elementClass>>
       /\ \A f \in BIO_FIELDS :
             fieldHistory'[f] # fieldHistory[f] => (alertMessage' = NoAlert /\ ApplyStep)
       /\ \A f \in BIO_FIELDS :
             (GenerationEnds /\ <<fieldHistory[f], currentVersionIndex[f], elementValue[f]>>
                               # <<fieldHistory'[f], currentVersionIndex'[f], elementValue'[f]>>) =>
                 /\ Len(fieldHistory'[f]) > 0
                 /\ elementValue'[f] = Last(fieldHistory'[f]).value
                 /\ currentVersionIndex'[f] = Len(fieldHistory'[f]) - 1]_vars

\* A generation failed on its content after an earlier one had been applied:
\* the field still shows the highlighted AI value under the Cursor.
C15_Witness ==
    /\ alertMessage = "Error parsing AI response"
    /\ \E f \in BIO_FIELDS :
          /\ Len(fieldHistory[f]) = 2
          /\ currentVersionIndex[f] = 1
          /\ elementValue[f] = fieldHistory[f][2].value
          /\ "ai-generated" \in elementClass[f]

\* The number of live invocations that have locked the controls.
Locked(b) ==
    Sum([inv \in {i \in BagToSet(b) : i.pc # "apiKey"} |-> CopiesIn(inv, b)])

\* Generate Bio is disabled or some field is locked.
ControlsLocked ==
    generateBioBtnDisabled \/ \E f \in BIO_FIELDS : elementDisabled[f]

\* C16: the task that ends a generation which had locked the controls
\* re-enables Generate Bio and unlocks every field, and alerts when the
\* generation failed; and once the network calls settle, locked controls
\* (Generate Bio disabled or a field locked) are eventually all enabled again.
C16_ControlsRestored ==
    /\ [][Locked(bio') < Locked(bio) =>
              /\ ~generateBioBtnDisabled'
              /\ \A f \in BIO_FIELDS : ~elementDisabled'[f]
              /\ FailureStep => alertMessage' \in {"Error generating bio",
                                                    "Error parsing AI response"}]_vars
    /\ ControlsLocked ~> ~ControlsLocked

\* A generation has just failed after its third request: the controls are
\* enabled again and the error is shown.
C16_Witness ==
    /\ alertMessage = "Error generating bio"
    /\ bio = EmptyBag
    /\ ~generateBioBtnDisabled
    /\ \A f \in BIO_FIELDS : ~elementDisabled[f]
    /\ OPENAI_API_KEY

\* An invocation waiting for the response to its k-th request.
Fetching(k) == Invocation("fetch", k)

\* An invocation in the delay after its failed k-th request.
Waiting(k) == Invocation("wait", k)

\* This step is the failure (status or transport) of a k-th request.
AttemptFails(k) ==
    \E outcome \in {"notok", "error"} : FetchResolved(Fetching(k), outcome)

\* This step issues no request.
NoRequestIssued ==
    \A k \in 1..maxAttempts : CopiesIn(Fetching(k), bio') <= CopiesIn(Fetching(k), bio)

\* C17: a generation makes at most 3 requests.  A first request is issued
\* only by a generation that locks the controls; a k-th request (k > 1) is
\* issued only by the timer of the delay after the failed request k - 1; a
\* delay starts only when a request other than the third failed; a
\* successful response issues no request; the failure of the third request
\* ends the generation with an error.
C17_AtMostThreeRequests ==
    [][/\ \A inv \in BagToSet(bio') : inv.attemptCount <= maxAttempts
       /\ \A k \in 1..maxAttempts :
             /\ CopiesIn(Fetching(k), bio') > CopiesIn(Fetching(k), bio) =>
                   IF k = 1
                   THEN Locked(bio') = Locked(bio) + 1
                   ELSE /\ CopiesIn(Waiting(k - 1), bio') = CopiesIn(Waiting(k - 1), bio) - 1
                        /\ Locked(bio') = Locked(bio)
             /\ CopiesIn(Waiting(k), bio') > CopiesIn(Waiting(k), bio) =>
                   k < maxAttempts /\ AttemptFails(k)
             /\ FetchResolved(Fetching(k), "ok") => NoRequestIssued
       /\ AttemptFails(maxAttempts) =>
             /\ GenerationEnds
             /\ NoRequestIssued
             /\ alertMessage' = "Error generating bio"]_vars

\* A generation is waiting for the response to its third request.
C17_Witness == BagIn(Fetching(maxAttempts), bio)

\* C18: every request after the first of a generation carries strictly
\* fewer reference-document inputs than the request before it.
C18_RetryNarrows ==
    \A inv \in BagToSet(bio) :
        (inv.pc = "fetch" /\ inv.attemptCount > 1) =>
            Len(currentInputFiles(inv.attemptCount)) <
                Len(currentInputFiles(inv.attemptCount - 1))

\* This step is the end of the task that follows a successful response.
ContentStep ==
    \E inv \in BagToSet(bio) : inv.pc = "json" /\ bio' = Remove(bio, inv)

\* C19: once a request returned a success status the generation issues no
\* further request: the task after it ends the generation, whether the
\* content is applied, does not parse or is missing; a delay before another
\* request starts only on a non-success status or a transport error.
C19_ContentIsTerminal ==
    [][/\ \A inv \in BagToSet(bio) :
             (inv.pc = "json" /\ CopiesIn(inv, bio') < CopiesIn(inv, bio)) =>
                 /\ ContentStep
                 /\ NoRequestIssued
                 /\ \A k \in 1..maxAttempts :
                       CopiesIn(Waiting(k), bio') = CopiesIn(Waiting(k), bio)
       /\ \A k \in 1..maxAttempts :
             (CopiesIn(Fetching(k), bio') > CopiesIn(Fetching(k), bio)
                \/ CopiesIn(Waiting(k), bio') > CopiesIn(Waiting(k), bio)) =>
                 CopiesIn(Invocation("json", 0), bio') = CopiesIn(Invocation("json", 0), bio)]_vars

\* A generation ended on missing or unparseable content while another,
\* whose request also succeeded, is still to be applied.
C19_Witness ==
    /\ alertMessage = "Error parsing AI response"
    /\ BagIn(Invocation("json", 0), bio)

\* C20: at most one generateBio is in flight at any time, the API-key
\* lookup included.
C20_OneGenerationInFlight == BagCardinality(bio) <= 1

\* C21: while a generation that locked the fields is in flight, a History
\* or a Cursor changes only in the apply step of a generation.
C21_OnlyApplyDuringGeneration ==
    [][Locked(bio) > 0 =>
          \A f \in BIO_FIELDS :
              (fieldHistory'[f] # fieldHistory[f]
                 \/ currentVersionIndex'[f] # currentVersionIndex[f]) => ApplyStep]_vars

\* This step is a user action on the fields: typing in a field, typing in
\* the modal of a field, or a click on a version button.
UserStep == \E f \in BIO_FIELDS : EditStep(f) \/ NavigateStep(f)

\* C22: while the fields are locked by a generation, no user action changes
\* the displayed value of any field.
C22_LockedFieldsKeepValue ==
    [][((\A f \in BIO_FIELDS : elementDisabled[f]) /\ UserStep) =>
          elementValue' = elementValue]_vars

\* C23: the apply step of a parsed result records a generation for every
\* declared field whose key is present in the result and displays the parsed
\* value there; every other field is left as it was.
C23_PresentKeysApplied ==
    [][\A inv \in BagToSet(bio), bioData \in BioDataSet :
          BioApply(inv, bioData) =>
              \A f \in BIO_FIELDS :
                  IF bioData[f] # NoValue
                  THEN /\ elementValue'[f] = bioData[f]
                       /\ fieldHistory'[f] =
                             SpecifiedHistory(fieldHistory[f], elementValue[f], bioData[f])
                  ELSE FieldState(f)' = FieldState(f)]_vars

\* The Version under the Cursor.
currentVersion(f) == fieldHistory[f][currentVersionIndex[f] + 1]

\* C24: right after a generation is applied to a field, the field displays
\* currentVersion(field).value and is highlighted iff the provenance of
\* currentVersion(field) is AiGenerated.
C24_DisplayFollowsCurrentVersion ==
    [][\A f \in BIO_FIELDS :
          (GenerationEnds /\ FieldState(f)' # FieldState(f)) =>
              /\ elementValue'[f] = currentVersion(f)'.value
              /\ ("ai-generated" \in elementClass'[f]) <=> (currentVersion(f)'.type = "ai")]_vars

(***************************************************************************)
(* parseAIResponse.                                                        *)
(***************************************************************************)
\* A call of parseAIResponse on a non-empty string has ended.
ParsedText ==
    call.op = "parsed" /\ call.outputText # NoValue /\ Truthy(call.outputText)

\* The text strategy k hands to JSON.parse, for the cleaned text.
StrategyText(text, k) ==
    CASE k = 1 -> text
      [] k = 2 -> fixEscapes(text)
      [] k = 3 -> fixDialogue(text)
      [] k = 4 -> fixCatchphrase(text)

StrategyParses(text, k) == JSONparse(StrategyText(text, k)).ok

AllStrategiesFail(text) == \A k \in 1..4 : ~StrategyParses(text, k)

\* C25: the strategies run in the order A, B, C, D on the one cleaned text; the
\* value returned is exactly the value the first succeeding strategy parsed,
\* so a strictly valid text comes back as Strategy A parsed it.
C25_FirstSuccessWins ==
    ParsedText =>
        LET text == cleanText(call.outputText)
        IN \A k \in 1..4 :
              (StrategyParses(text, k) /\ \A j \in 1..(k - 1) : ~StrategyParses(text, j))
                  => call.outcome = Returned(JSONparse(StrategyText(text, k)).value, k)

\* A text only the fourth strategy parses has been parsed.
C25_Witness ==
    /\ ParsedText
    /\ call.outcome.returned
    /\ call.outcome.strategy = 4

\* The parts of an error message include the given text.
Carries(message, text) ==
    \E i \in 1..Len(message) : StartsWithAt(message, i, text)

\* C26: when every strategy fails the call fails, never returning a record,
\* and the error carries the original raw text and the last parse error.
C26_FailureCarriesRawText ==
    (ParsedText /\ AllStrategiesFail(cleanText(call.outputText))) =>
        /\ ~call.outcome.returned
        /\ Carries(call.outcome.message, <<SyntaxErrorMessage>>)
        /\ Carries(call.outcome.message, call.outputText)

\* A quotation mark inside a string value written with one backslash too many.
OverEscapedQuote == <<Backslash, Backslash, Quote>>

PlainTexts == SeqsUpTo({"a"}, MaxContentLen)

\* C27: an object valid except for an over-escaped quotation mark in a string
\* value fails Strategy A, parses under a later strategy, and the recovered
\* value holds an apostrophe where the mark was.
C27_OverEscapedBecomesApostrophe ==
    \A key \in ParserKeys, before \in PlainTexts, after \in PlainTexts :
        (/\ ParsedText
         /\ call.wrapping = "bare"
         /\ call.body = ObjectText(key, before \o OverEscapedQuote \o after))
        => /\ ~StrategyParses(call.body, 1)
           /\ call.outcome.returned
           /\ call.outcome.strategy > 1
           /\ call.outcome.value =
                  JsonObject({<<key, JsonString(before \o <<"'">> \o after)>>})

\* C28: a valid object inside a fenced block, whatever the tag of the opening
\* fence, parses to the value of the object alone.
C28_FenceStripped ==
    (/\ ParsedText
     /\ call.wrapping \in {"json", "untagged", "js"}
     /\ JSONparse(call.body).ok)
    => /\ call.outcome.returned
       /\ call.outcome.value = JSONparse(call.body).value

(***************************************************************************)
(* The three operations and the API key.                                   *)
(***************************************************************************)
\* The number of invocations in the bag that are at one of the pcs.
CountAt(bag, pcs) ==
    Sum([inv \in {i \in BagToSet(bag) : i.pc \in pcs} |-> CopiesIn(inv, bag)])

\* A key lookup of some invocation settles and leaves the global empty.
NoKeyStep ==
    /\ ~OPENAI_API_KEY'
    /\ \/ CountAt(bio', {"apiKey"}) < CountAt(bio, {"apiKey"})
       \/ CountAt(image', {"apiKey"}) < CountAt(image, {"apiKey"})

\* C29: an invocation of generateBio, generateImage or refineImage that finds
\* no API key issues no request, disables no control, locks no field, changes
\* no History, Cursor or displayed value, and shows an error message.
C29_NoKeyNoEffect ==
    [][NoKeyStep =>
          /\ CountAt(bio', {"fetch"}) = CountAt(bio, {"fetch"})
          /\ CountAt(image', {"read", "fetch"}) = CountAt(image, {"read", "fetch"})
          /\ UNCHANGED <<generateBioBtnDisabled, generateImageBtnDisabled,
                         refineImageBtnDisabled, elementDisabled>>
          /\ UNCHANGED <<fieldHistory, currentVersionIndex, elementValue>>
          /\ alertMessage' = "API key not configured"]_vars

\* The message is up, no key is held, and the lookup of an image invocation
\* is still pending next to a bio result already applied.
C29_Witness ==
    /\ alertMessage = "API key not configured"
    /\ ~OPENAI_API_KEY
    /\ CountAt(image, {"apiKey"}) > 0
    /\ fieldHistory[TheField] # <<>>

(***************************************************************************)
(* Keys outside the declared set.                                          *)
(***************************************************************************)
\* C30: saveAIVersionWithOriginal and navigateVersion called with a key
\* outside BIO_FIELDS fail with an error and leave every declared field's
\* History and Cursor as they were; the fields that own a History are
\* always the declared ones.
C30_UnknownFieldFails ==
    [][call'.op \in {"saveUnknownKey", "navigateUnknownKey"} =>
          /\ call'.threw
          /\ UNCHANGED <<fieldHistory, currentVersionIndex>>
          /\ DOMAIN fieldHistory' = BIO_FIELDS
          /\ DOMAIN currentVersionIndex' = BIO_FIELDS]_vars

(***************************************************************************)
(* The image operations.                                                   *)
(***************************************************************************)
\* The invocations of op in the bag that are at one of the pcs.
CountOpAt(bag, op, pcs) ==
    Sum([inv \in {i \in BagToSet(bag) : i.op = op /\ i.pc \in pcs} |-> CopiesIn(inv, bag)])

ImagePcs == {"apiKey", "read", "fetch", "json"}

\* The request of a generateImage invocation fails, or its response holds no
\* image.
GenerateImageFailure ==
    \E inv \in BagToSet(image) :
        /\ inv.op = "generateImage"
        /\ \/ \E outcome \in {"notok", "error"} : ImageFetchResolved(inv, outcome)
           \/ \E data \in {"noimage", "error"} : ImageJsonResolved(inv, data)

\* C31: generateImage sends one request per invocation; when the request
\* fails or the response holds no image the invocation ends without another
\* request, the displayed image stays, an error is shown and the Generate
\* Image button is enabled again.
C31_ImageSingleRequest ==
    /\ [][CountOpAt(image', "generateImage", {"fetch"})
             > CountOpAt(image, "generateImage", {"fetch"})
           => CountOpAt(image', "generateImage", {"json"})
                 = CountOpAt(image, "generateImage", {"json"})]_vars
    /\ [][GenerateImageFailure =>
             /\ CountOpAt(image', "generateImage", ImagePcs)
                   = CountOpAt(image, "generateImage", ImagePcs) - 1
             /\ CountOpAt(image', "generateImage", {"fetch"})
                   <= CountOpAt(image, "generateImage", {"fetch"})
             /\ characterImage' = characterImage
             /\ alertMessage' = "Error generating image"
             /\ ~generateImageBtnDisabled']_vars

\* A later generateImage has failed and the image shown before is still up.
C31_Witness ==
    /\ alertMessage = "Error generating image"
    /\ characterImage # "none"
    /\ ~generateImageBtnDisabled

\* A task of generateBio ran.
BioTask == bio' # bio

\* A task of generateImage or refineImage ran.
ImageTask ==
    <<image, characterImage, generateImageBtnDisabled, refineImageBtnDisabled>>'
        # <<image, characterImage, generateImageBtnDisabled, refineImageBtnDisabled>>

\* C32: the bio latch and the image latch are independent: a task of
\* generateBio leaves the disabled state of the image buttons alone, a task
\* of an image operation leaves alone the Generate Bio button, the locks of
\* the fields and every field's History, Cursor and displayed value.
C32_LatchesIndependent ==
    [][/\ BioTask => UNCHANGED <<generateImageBtnDisabled, refineImageBtnDisabled>>
       /\ ImageTask =>
             /\ UNCHANGED <<generateBioBtnDisabled, elementDisabled>>
             /\ UNCHANGED <<fieldHistory, currentVersionIndex, elementValue>>]_vars

\* A bio generation and an image generation have their requests in flight
\* together, over a field that already has a History.
C32_Witness ==
    /\ CountAt(bio, {"fetch"}) > 0
    /\ CountOpAt(image, "generateImage", {"fetch"}) > 0
    /\ generateBioBtnDisabled
    /\ generateImageBtnDisabled
    /\ fieldHistory[TheField] # <<>>

\* C33: the image operations are serialized: at most one request of
\* generateImage or refineImage is in flight, and the image displayed was set
\* by the invocation that was then the one started last.
C33_ImageSerialized ==
    /\ CountAt(image, {"fetch"}) <= 1
    /\ characterImage # "stale"

(***************************************************************************)
(* The original value of a generation.                                     *)
(***************************************************************************)
\* C34: the original value a generation records for a field is the value
\* the field held when the generation was requested, the one collected into
\* formData.
C34_OriginalIsCaptured ==
    [][\A inv \in BagToSet(bio), a \in AIValues :
          (BioApplyWithin(inv, OnlyTheField(a), MaxLiveVersions) /\ Applies(OnlyTheField(a), TheField))
              => fieldHistory'[TheField] =
                    saveAIVersionWithOriginal(fieldHistory[TheField],
                                              call.formData[TheField], a)]_vars

(***************************************************************************)
(* The snapshot of an edit and the provenance of the Versions.             *)
(***************************************************************************)
\* C35: when a generation is applied to a field with a History whose
\* displayed value v differs from the value of the last Version, v is appended
\* as a Blank or UserEdited Version right before any AiGenerated Version of
\* that call; when v equals the value of the last Version no snapshot is
\* appended, whatever the provenance of that Version.
C35_SnapshotBeforeAi ==
    [][\A inv \in BagToSet(bio), a \in AIValues :
          (BioApplyWithin(inv, OnlyTheField(a), MaxFieldVersions)
             /\ Applies(OnlyTheField(a), TheField) /\ fieldHistory[TheField] # <<>>) =>
              LET h  == fieldHistory[TheField]
                  hh == fieldHistory'[TheField]
                  v  == elementValue[TheField]
                  n  == Len(h)
              IN /\ IsPrefix(h, hh)
                 /\ IF v # Last(h).value
                    THEN /\ Len(hh) \in {n + 1, n + 2}
                         /\ hh[n + 1] = OriginalVersion(v)
                         /\ Len(hh) = n + 2 => hh[n + 2] = AiVersion(a)
                    ELSE \/ hh = h
                         \/ hh = Append(h, AiVersion(a))]_vars

\* A generation applied after an edit: the History ends with the snapshot of
\* the edit and the AI Version, on top of two earlier Versions.
C35_Witness ==
    /\ Len(fieldHistory[TheField]) = 4
    /\ fieldHistory[TheField][2].type = "ai"
    /\ fieldHistory[TheField][3].type = "user"
    /\ fieldHistory[TheField][4].type = "ai"
    /\ untouched[TheField]

\* C36: every Version of provenance Blank has a value that is empty after
\* trimming, every Version of provenance UserEdited one that is not, and a
\* Version appended from an AI result is AiGenerated whatever its content.
C36_ProvenanceMatchesContent ==
    /\ \A f \in BIO_FIELDS : \A i \in 1..Len(fieldHistory[f]) :
           /\ fieldHistory[f][i].type \in {"blank", "user", "ai"}
           /\ fieldHistory[f][i].type = "blank" => IsBlank(fieldHistory[f][i].value)
           /\ fieldHistory[f][i].type = "user" => ~IsBlank(fieldHistory[f][i].value)
    /\ call.op = "save" =>
           LET h    == call.before.history
               o    == call.originalValue
               base == IF h = <<>> \/ o # Last(h).value THEN o ELSE Last(h).value
           IN call.aiValue # base => Last(fieldHistory[call.field]) = AiVersion(call.aiValue)

\* A call has recorded an AI value of white space only, as AiGenerated, on
\* top of a UserEdited snapshot.
C36_Witness ==
    /\ call.op = "save"
    /\ call.aiValue = <<" ">>
    /\ Len(fieldHistory[call.field]) = 2
    /\ fieldHistory[call.field][1].type = "user"
    /\ fieldHistory[call.field][2] = [value |-> <<" ">>, type |-> "ai"]

\* A failure inside the creation of the document: a jsPDF call of the try
\* block throws, or the onload handler that adds the image does.
DocumentCreationFails ==
    \/ DownloadClick("throws")
    \/ \E load \in {"added", "error"} : ImageLoadSettles(load, "throws")
    \/ \E outcome \in PdfOutcomes : ImageLoadSettles("threw", outcome)

\* A task of downloadBio that ends the invocation, or leaves it with nothing
\* more to run.
DownloadOver ==
    \/ \E outcome \in PdfOutcomes : DownloadClick(outcome) /\ download' = Idle
    \/ \E load \in LoadOutcomes, outcome \in PdfOutcomes : ImageLoadSettles(load, outcome)

\* C37: a task of the export changes no History, Cursor, displayed value or
\* visual state; the document it produces shows the values the fields
\* displayed and the image the page displayed when the export read them,
\* whatever the Histories and Cursors are; a failure inside the creation of
\* the document produces the printable document; and the task that ends an
\* export leaves the download button enabled.
C37_ExportReadsDisplayedOnly ==
    [][/\ exportVars' # exportVars =>
              UNCHANGED <<fieldHistory, currentVersionIndex, elementValue, elementClass>>
       /\ exported' # exported =>
              /\ exported'.formData = IF download.pc = "image" THEN download.formData
                                      ELSE elementValue
              /\ exported'.image \in {"none", characterImage, download.image}
       /\ DocumentCreationFails => exported'.kind = "print"
       /\ DownloadOver => ~downloadBioBtnDisabled']_vars

\* This step is a task of an operation on field g: an edit of g in the page
\* or in the modal, a click on a navigation button of g, the frame callback a
\* navigation of g requested, or the apply task of a result with a value for g.
OperationOn(g) ==
    \/ \E v \in TypedValues : UserInput(g, v) \/ ModalInput(g, v)
    \/ NavigateStep(g)
    \/ (AnimationFrame /\ rafPending[g] # NoValue)
    \/ \E inv \in BagToSet(bio), bioData \in BioDataSet :
          Applies(bioData, g) /\ BioApply(inv, bioData)

\* C38: an edit of a field f or a navigation of f changes the History,
\* Cursor, displayed value, classes and navigation controls of no other
\* field, and the state of a field g changes in no step but a task of an
\* operation on g itself (so a generation recorded for f alone leaves g as
\* it was).
C38_FieldsIndependent ==
    [][/\ \A f \in BIO_FIELDS : \A g \in BIO_FIELDS \ {f} :
              (NavigateStep(f) \/ \E v \in TypedValues : UserInput(f, v) \/ ModalInput(f, v)) =>
                  FieldState(g)' = FieldState(g)
       /\ \A g \in BIO_FIELDS :
              FieldState(g)' # FieldState(g) => OperationOn(g)]_vars

\* Field catchphrase was navigated back to its first Version while field
\* background holds a generated Version under its Cursor.
C38_Witness ==
    /\ Len(fieldHistory["catchphrase"]) >= 2
    /\ currentVersionIndex["catchphrase"] = 0
    /\ fieldHistory["background"] # <<>>
    /\ currentVersionIndex["background"] = Len(fieldHistory["background"]) - 1
    /\ elementValue["background"] = Last(fieldHistory["background"]).value
    /\ elementValue["background"] # <<>>

\* The state navigateVersion(f, direction) leaves field f in, from state.
Navigated(f, state, direction) ==
    LET history  == fieldHistory[f]
        newIndex == navigateIndex(history, state.index, direction)
    IN IF newIndex # state.index
       THEN [history  |-> history,
             index    |-> newIndex,
             value    |-> history[newIndex + 1].value,
             class    |-> classAfterNavigate(state.class, history[newIndex + 1].type),
             controls |-> updateVersionControls(state.controls, history, newIndex),
             raf      |-> history[newIndex + 1].value]
       ELSE state

\* Field f displays the value of the Version under its Cursor.
DisplaysCurrent(f) == elementValue[f] = currentVersion(f).value

\* The classes of field f are those of the provenance of the Version under
\* its Cursor.
ClassOfCurrent(f) ==
    /\ ("ai-generated" \in elementClass[f]) <=> (currentVersion(f).type = "ai")
    /\ ("user-edited" \in elementClass[f]) <=> (currentVersion(f).type # "ai")

\* The two directions a round trip can start in from the state of field f.
TripDirections(f) ==
    {d \in {-1, 1} : /\ fieldHistory[f] # <<>>
                     /\ currentVersionIndex[f] + d \in 0..(Len(fieldHistory[f]) - 1)
                     /\ DisplaysCurrent(f)}

\* C39 as stated: from a field with a Version on the far side of the Cursor
\* that displays the value under its Cursor, a navigation and the opposite
\* navigation restore the Cursor, the displayed value, the classes and the
\* counter.
C39_RoundTripAsStated ==
    [][\A f \in BIO_FIELDS : \A d \in TripDirections(f) :
          (IF d < 0 THEN ClickPrev(f) ELSE ClickNext(f)) =>
              LET after == Navigated(f, FieldState(f)', -d)
              IN /\ FieldState(f)' = Navigated(f, FieldState(f), d)
                 /\ after.index = currentVersionIndex[f]
                 /\ after.value = elementValue[f]
                 /\ after.controls.counter = versionControls[f].counter
                 /\ after.class = elementClass[f]]_vars

\* C39: the round trip restores the Cursor, the displayed value and the
\* counter, and leaves the classes of the provenance of the Version under the
\* Cursor: the classes before the two steps if they were those of that
\* provenance.
C39_RoundTrip ==
    [][\A f \in BIO_FIELDS : \A d \in TripDirections(f) :
          (IF d < 0 THEN ClickPrev(f) ELSE ClickNext(f)) =>
              LET after == Navigated(f, FieldState(f)', -d)
              IN /\ FieldState(f)' = Navigated(f, FieldState(f), d)
                 /\ after.index = currentVersionIndex[f]
                 /\ after.value = elementValue[f]
                 /\ after.controls.counter = versionControls[f].counter
                 /\ after.class = classAfterNavigate(elementClass[f], currentVersion(f).type)
                 /\ ClassOfCurrent(f) => after.class = elementClass[f]]_vars

\* A field right after a click on its next button that brought it back to
\* its last Version, a generated one, which it displays as generated.
C39_Witness ==
    \E f \in BIO_FIELDS :
        /\ Len(fieldHistory[f]) >= 2
        /\ currentVersionIndex[f] = Len(fieldHistory[f]) - 1
        /\ rafPending[f] = Last(fieldHistory[f]).value
        /\ DisplaysCurrent(f)
        /\ ClassOfCurrent(f)
        /\ Last(fieldHistory[f]).type = "ai"

\* At most one tile is selected, and the input holds its alignment, or the
\* empty string when no tile is selected.
OneTileSelected ==
    /\ Cardinality(selectedTiles) <= 1
    /\ \A tile \in selectedTiles : alignmentValue = dataset(tile)
    /\ selectedTiles = {} => alignmentValue = ""

\* C40: whatever tiles were clicked, at most one tile is selected and the
\* alignment input holds the selected tile's alignment, or the empty string
\* when none is selected; a click on the selected tile leaves no tile
\* selected, and a click on another tile leaves that tile selected.
C40_AlignmentSelection ==
    /\ []OneTileSelected
    /\ [][\A tile \in AlignmentTiles :
             GridClick(tile) =>
                 /\ tile \in selectedTiles => selectedTiles' = {} /\ alignmentValue' = ""
                 /\ tile \notin selectedTiles => selectedTiles' = {tile}]_vars

\* A tile is selected after another one was: its alignment is in the input.
C40_Witness ==
    /\ selectedTiles = {"tile2"}
    /\ alignmentValue = "True Neutral"

====
